---- MODULE Spec2Model ----
(***************************************************************************)
(* Model of the FSA quiz simulator: the set-up page (topic tree selection, *)
(* start of an AI generated quiz, quiz-file load), the generated-question  *)
(* validator of the Gemini service and the quiz context.                   *)
(*                                                                         *)
(* A topic title is a tuple: <<p>> is a curriculum part, <<p, c>> one of   *)
(* its chapters, <<p, c, l>> a section of that chapter.  The curriculum of *)
(* the repository has four parts; the model keeps its three-level shape    *)
(* and bounds its width.                                                   *)
(***************************************************************************)
EXTENDS Integers, Sequences, FiniteSets, TLC

\* ------------------------------------------------------------------ bounds
NumParts == 1
NumChapters == 2
NumLeaves == 2
\* Longest list of weak topics the results page hands to the set-up page.
MaxWeak == 2
\* Largest value the number-of-questions slider is moved to.
MaxSlider == 2
\* Cap on the number of questions of one run (the simulator modes ask for
\* SIMULADO_COMPLETO_QUESTIONS or HALF_SIMULADO_QUESTIONS of them).
MaxQuestions == 4
\* Most questions of a quiz in progress.
MaxSessionQuestions == 2
\* Longest option list and longest answer-key list of a generated candidate.
MaxOptions == 2
MaxKeys == 2
\* Quiz files selected at once, and items of one quiz file.
MaxFiles == 2
MaxItems == 2
\* Largest rotation among the orders a shuffle is tried with.
MaxShift == 1
\* Longest string of a parsed object, and longest prose around a fenced block.
MaxContent == 2
MaxProse == 1
\* Most saveQuizToHistory calls of one behaviour.
MaxSaves == 3
\* Most submitAnswer calls of one quiz.
MaxResults == 3
\* Distinct values Date.now() takes.
NumTimestamps == 2

\* --------------------------------------------------------- program constants
InitialNumberOfQuestions == 10
WeakTopicsQuestionCap == 10
SIMULADO_COMPLETO_QUESTIONS == 20
HALF_SIMULADO_QUESTIONS == 50
ASSESSMENT_QUESTIONS == 40
MAX_HISTORY_ITEMS == 50
\* 'A'.charCodeAt(0) and 'F'.charCodeAt(0)
CodeA == 65
CodeF == 70

Null == "null"

\* ------------------------------------------------------------ curriculum
\* data/courseData.ts: the static tree.
curriculumTopics == { <<p>> : p \in 1..NumParts }

subTopics(t) ==
    IF Len(t) = 1 THEN { <<t[1], c>> : c \in 1..NumChapters }
    ELSE IF Len(t) = 2 THEN { <<t[1], t[2], l>> : l \in 1..NumLeaves }
    ELSE {}

Chapters == UNION { subTopics(p) : p \in curriculumTopics }
Sections == UNION { subTopics(c) : c \in Chapters }

\* A title no curriculum node carries ("Uncategorized", "Assessment Mix", a
\* topic of a loaded quiz file).
UnknownTitle == <<0>>

\* allTopicTitles: every title of the tree, parts included.
allTopicTitles == curriculumTopics \cup Chapters \cup Sections

Titles == allTopicTitles \cup {UnknownTitle}

\* The tree itself, used to state the claims: the node above a node, the
\* nodes below it.
TreeParent(t) == IF Len(t) = 3 THEN <<t[1], t[2]>> ELSE <<t[1]>>
TreeAncestors(t) ==
    IF t \notin allTopicTitles \/ Len(t) = 1 THEN {}
    ELSE IF Len(t) = 2 THEN { <<t[1]>> }
    ELSE { <<t[1], t[2]>>, <<t[1]>> }
TreeDescendants(t) ==
    IF t \notin allTopicTitles THEN {}
    ELSE { d \in allTopicTitles : d # t /\ t \in TreeAncestors(d) }

\* ------------------------------------------------- parentMap / childrenMap
\* traverse() is started on the sub-topics of every part, with parent null:
\* the parts themselves are keys of neither map.
MapKeys == Chapters \cup Sections

parentMap == [ t \in MapKeys |-> IF t \in Chapters THEN Null ELSE TreeParent(t) ]

childrenMap == [ t \in MapKeys |-> subTopics(t) ]

\* childrenMap.get(title) || []
ChildrenOf(title) == IF title \in DOMAIN childrenMap THEN childrenMap[title] ELSE {}

\* parentMap.get(title), undefined and null both falsy
ParentOf(title) == IF title \in DOMAIN parentMap THEN parentMap[title] ELSE Null

\* ------------------------------------------------------ handleTopicChange
RECURSIVE updateChildren(_, _, _)
RECURSIVE updateEachChild(_, _, _)

updateEachChild(newSelected, children, select) ==
    IF children = {} THEN newSelected
    ELSE LET child == CHOOSE c \in children : TRUE
         IN  updateEachChild(updateChildren(newSelected, child, select),
                             children \ {child}, select)

updateChildren(newSelected, title, select) ==
    updateEachChild(IF select THEN newSelected \cup {title}
                              ELSE newSelected \ {title},
                    ChildrenOf(title), select)

RECURSIVE updateParents(_, _, _)

updateParents(newSelected, title, checked) ==
    LET parentTitle == ParentOf(title)
    IN  IF parentTitle = Null THEN newSelected
        ELSE IF checked
             THEN IF \A t \in ChildrenOf(parentTitle) : t \in newSelected
                  THEN updateParents(newSelected \cup {parentTitle}, parentTitle, checked)
                  ELSE newSelected
             ELSE IF parentTitle \in newSelected
                  THEN updateParents(newSelected \ {parentTitle}, parentTitle, checked)
                  ELSE newSelected

\* The set the updater computes before it decides to keep or reject it.
ToggledTopics(prev, topic, checked) ==
    updateParents(updateChildren(prev.topics, topic, checked), topic, checked)

TopicChangeNoGuard(prev, topic, checked) ==
    [prev EXCEPT !.topics = ToggledTopics(prev, topic, checked)]

\* The updater handed to setSettings.
TopicChange(prev, topic, checked) ==
    LET newSelected == ToggledTopics(prev, topic, checked)
    IN  IF newSelected = {} THEN prev
        ELSE [prev EXCEPT !.topics = newSelected]


\* ---------------------------------------------------- weak topics effect
RECURSIVE addTopicAndItsChildren(_, _)
RECURSIVE addEachChild(_, _)

addEachChild(topicsToSelect, children) ==
    IF children = {} THEN topicsToSelect
    ELSE LET child == CHOOSE c \in children : TRUE
         IN  addEachChild(addTopicAndItsChildren(topicsToSelect, child),
                          children \ {child})

addTopicAndItsChildren(topicsToSelect, topicTitle) ==
    addEachChild(topicsToSelect \cup {topicTitle}, ChildrenOf(topicTitle))

\* weakTopics.forEach(topic => addTopicAndItsChildren(topic))
expandWeakTopics(weakTopics) ==
    UNION { addTopicAndItsChildren({}, t) : t \in weakTopics }

\* topics.filter(t => (childrenMap.get(t) || []).length === 0)
leafFilter(topics) == { t \in topics : ChildrenOf(t) = {} }

Min(a, b) == IF a < b THEN a ELSE b

Difficulties == {"Facil", "Medio", "Dificil"}
QuizModes == {"practice", "timed", "timed_half", "assessment"}

\* The settings the weak-topics effect stores.
WeakTopicsSettings(weakTopics) ==
    LET topicsToSelect == expandWeakTopics(weakTopics)
        leaves == Cardinality(leafFilter(topicsToSelect))
    IN  [topics |-> topicsToSelect,
         difficulty |-> Difficulties,
         numberOfQuestions |->
             Min(WeakTopicsQuestionCap,
                 IF leaves = 0 THEN WeakTopicsQuestionCap ELSE leaves)]

\* Lists of weak topics: the topic labels of questions answered wrong, any
\* title a question can carry.
WeakLists == { w \in SUBSET Titles : w # {} /\ Cardinality(w) <= MaxWeak }

InitialSettings ==
    [topics |-> {<<1, 1>>},
     difficulty |-> {"Medio"},
     numberOfQuestions |-> InitialNumberOfQuestions]

\* effectiveSettings of the set-up page; the number of questions of a run is
\* capped by MaxQuestions.
effectiveSettings(s, m) ==
    IF m \in {"timed", "timed_half"}
    THEN [topics |-> allTopicTitles,
          difficulty |-> Difficulties,
          numberOfQuestions |->
              Min(IF m = "timed" THEN SIMULADO_COMPLETO_QUESTIONS
                                 ELSE HALF_SIMULADO_QUESTIONS, MaxQuestions)]
    ELSE IF m = "assessment"
    THEN [topics |-> {},
          difficulty |-> Difficulties,
          numberOfQuestions |-> Min(ASSESSMENT_QUESTIONS, MaxQuestions)]
    ELSE [s EXCEPT !.numberOfQuestions = Min(s.numberOfQuestions, MaxQuestions)]

\* collect(): the order of allTopicTitles, a node before its sub-topics and
\* before the nodes that follow it.
RECURSIVE Precedes(_, _)
Precedes(a, b) ==
    IF a = <<>> THEN b # <<>>
    ELSE IF b = <<>> THEN FALSE
    ELSE IF Head(a) # Head(b) THEN Head(a) < Head(b)
    ELSE Precedes(Tail(a), Tail(b))

\* ------------------------------------------------- generated candidates
\* A string is modelled by what the code reads of it.  An answer key is the
\* sequence of its character codes.  An option is a letter prefix "X) ", or
\* none, followed by a text; the texts are "x", "y" and the empty string.
\* A boolean field of a JSON object is "true", "false" or "undefined".
SeqsOf(S, lo, hi) == UNION { [1..n -> S] : n \in lo..hi }

OptionTexts == {"x", "y", ""}
OptionValues ==
    { o \in [prefix : BOOLEAN, text : OptionTexts] : o.prefix \/ o.text = "x" }

\* "A", "B", "C", "G", "AB"
KeyValues == { <<65>>, <<66>>, <<67>>, <<71>>, <<65, 66>> }

Flags == {"true", "false", "undefined"}

\* The objects a response of the model can parse to.
Candidates ==
    [question : {"Q", ""},
     options : SeqsOf(OptionValues, 1, MaxOptions),
     answer_keys : SeqsOf(KeyValues, 0, MaxKeys),
     isMultipleChoice : Flags]

\* /^[A-F]$/.test(key)
IsLetterAToF(key) == Len(key) = 1 /\ key[1] >= CodeA /\ key[1] <= CodeF

\* key.charCodeAt(0) - 65
KeyIndex(key) == key[1] - CodeA

InvalidKeyFormatOnly(key, options) == ~IsLetterAToF(key)

\* The two checks the validator makes on one key.
InvalidKey(key, options) ==
    \/ ~IsLetterAToF(key)
    \/ KeyIndex(key) >= Len(options)

FlagNeverContradictsKeys(out) == FALSE

\* isMultipleChoice === false && answer_keys.length > 1
FlagContradictsKeys(out) ==
    out.isMultipleChoice = "false" /\ Len(out.answer_keys) > 1

validateGeneratedQuestion(out) ==
    IF out.question = ""
    THEN [ok |-> FALSE, reason |-> "Missing or invalid 'question' field."]
    ELSE IF Len(out.answer_keys) = 0
    THEN [ok |-> FALSE, reason |-> "Answer keys must be a non-empty array."]
    ELSE IF Len(out.options) < 2
    THEN [ok |-> FALSE, reason |-> "Must provide at least 2 options."]
    ELSE IF \E k \in DOMAIN out.answer_keys : InvalidKey(out.answer_keys[k], out.options)
    THEN LET k == CHOOSE i \in DOMAIN out.answer_keys :
                      /\ InvalidKey(out.answer_keys[i], out.options)
                      /\ \A j \in 1..(i - 1) : ~InvalidKey(out.answer_keys[j], out.options)
         IN  IF ~IsLetterAToF(out.answer_keys[k])
             THEN [ok |-> FALSE, reason |-> "Invalid answer key format"]
             ELSE [ok |-> FALSE, reason |-> "Answer key is out of bounds for the given options."]
    ELSE IF FlagContradictsKeys(out)
    THEN [ok |-> FALSE, reason |-> "isMultipleChoice is false but multiple answers were provided."]
    ELSE [ok |-> TRUE, reason |-> ""]

\* A response of callGemini: the call throws ("error": the request failed or
\* the text was empty), or it returns a text.  The text is no JSON at all
\* ("garbage"), the JSON literal null ("null"), or a JSON object ("object").
ResponseKinds == {"error", "garbage", "null", "object"}
FailedResponses == { [kind |-> k, object |-> <<>>] : k \in ResponseKinds \ {"object"} }
ObjectResponse(c) == [kind |-> "object", object |-> <<c>>]

\* robustJsonParse: throws when JSON.parse does, else returns the value.
robustJsonParse(raw) ==
    IF raw.kind = "garbage" THEN [threw |-> TRUE, value |-> <<>>]
    ELSE [threw |-> FALSE, value |-> raw.object]

\* One pass through the body of the loop of generateQuestions, from the
\* settled callGemini promise on: the result the function returns now, or
\* that it goes on, with the object parsed (none when there is no object) and
\* the object pushed to results.
generateQuestionsStep(raw) ==
    IF raw.kind = "error"
    THEN [returns |-> TRUE, reason |-> "callGemini failed", parsed |-> <<>>, push |-> <<>>]
    ELSE LET parsed == robustJsonParse(raw)
         IN  IF parsed.threw
             THEN [returns |-> TRUE, reason |-> "Could not find a valid JSON object",
                   parsed |-> <<>>, push |-> <<>>]
             ELSE IF parsed.value = <<>>
             THEN [returns |-> TRUE, reason |-> "Model did not return valid JSON.",
                   parsed |-> <<>>, push |-> <<>>]
             ELSE LET check == validateGeneratedQuestion(parsed.value[1])
                  IN  IF ~check.ok
                      THEN [returns |-> TRUE, reason |-> check.reason,
                            parsed |-> parsed.value, push |-> <<>>]
                      ELSE [returns |-> FALSE, reason |-> "",
                            parsed |-> parsed.value, push |-> parsed.value]

\* ----------------------------------------------- candidate to Question
\* A correctAnswer is an array of texts or one value: isArray tells which,
\* values holds the texts; a single value that is undefined has no text.
ArrayAnswer(texts) == [isArray |-> TRUE, values |-> texts]
SingleAnswer(texts) ==
    [isArray |-> FALSE, values |-> IF texts = <<>> THEN <<>> ELSE <<texts[1]>>]

\* opt.replace(/^[A-Z]\)\s*/, '')
cleanOption(opt) == opt.text

cleanOptions(genQ) == [i \in DOMAIN genQ.options |-> cleanOption(genQ.options[i])]

\* answer_keys mapped to indices, to the clean option texts, falsy texts
\* (the empty string, undefined for an index with no option) filtered out.
resolvedAnswers(genQ) ==
    LET clean == cleanOptions(genQ)
        texts == [k \in DOMAIN genQ.answer_keys |->
                     LET index == KeyIndex(genQ.answer_keys[k])
                     IN  IF index + 1 \in DOMAIN clean THEN clean[index + 1] ELSE ""]
    IN  SelectSeq(texts, LAMBDA item : item # "")

\* correctAnswers.length !== genQ.answer_keys.length: the candidate is skipped
mismatchedAnswers(genQ) == Len(resolvedAnswers(genQ)) # Len(genQ.answer_keys)

\* The Question built from a candidate that is not skipped.
toQuestion(genQ, id, topic) ==
    [id |-> id,
     question |-> genQ.question,
     options |-> cleanOptions(genQ),
     correctAnswer |-> IF genQ.isMultipleChoice = "true"
                       THEN ArrayAnswer(resolvedAnswers(genQ))
                       ELSE SingleAnswer(resolvedAnswers(genQ)),
     isMultipleChoice |-> genQ.isMultipleChoice,
     topic |-> topic]

\* result.data.forEach(genQ => ...) of handleStartQuiz: acc holds
\* allQuestions and questionId.
RECURSIVE mapGenerated(_, _, _, _)
mapGenerated(data, acc, numberOfQuestions, topic) ==
    IF data = <<>> THEN acc
    ELSE LET genQ == Head(data)
         IN  IF Len(acc.allQuestions) < numberOfQuestions /\ ~mismatchedAnswers(genQ)
             THEN mapGenerated(Tail(data),
                               [allQuestions |-> Append(acc.allQuestions,
                                                        toQuestion(genQ, acc.questionId, topic)),
                                questionId |-> acc.questionId + 1],
                               numberOfQuestions, topic)
             ELSE mapGenerated(Tail(data), acc, numberOfQuestions, topic)

\* An option that is not a string (a number, null, an object): the response
\* is parsed JSON, and the validator checks only that options is an array of
\* at least two elements.
NonStringOption == [prefix |-> FALSE, text |-> "not a string"]

\* genQ.options.map(opt => opt.replace(...)) raises a TypeError.
replaceThrows(genQ) == \E i \in DOMAIN genQ.options : genQ.options[i] = NonStringOption

\* The forEach of handleStartQuiz raises an exception: a candidate reached
\* while questions are still missing has an option that is not a string.
RECURSIVE mappingThrows(_, _, _, _)
mappingThrows(data, acc, numberOfQuestions, topic) ==
    IF data = <<>> THEN FALSE
    ELSE IF Len(acc.allQuestions) < numberOfQuestions /\ replaceThrows(Head(data))
    THEN TRUE
    ELSE mappingThrows(Tail(data),
                       mapGenerated(<<Head(data)>>, acc, numberOfQuestions, topic),
                       numberOfQuestions, topic)

\* Math.ceil(a / b)
Ceil(a, b) == (a + b - 1) \div b

\* ------------------------------------------------------------ quiz files
\* A quiz file: its text cannot be read ("unreadable"), is no JSON
\* ("garbage"), is JSON without items or answerKey ("incomplete"), or is a
\* LoadedQuiz, stringified once or twice.  Item i of a file has id i, the
\* options "x", "y" and one topic; answerKey maps an item id to its
\* correctOptionIndices, NoAnswer when the id has no entry.
ItemTypes == {"single", "multi"}
FileOptions == <<"x", "y">>
FileTopic == <<1, 1, 1>>
NoAnswer == <<-1>>
\* An answer-key entry that has no correctOptionIndices.
NoIndices == <<-2>>
IndexLists == { <<>>, <<0>>, <<0, 1>>, <<2>> }

LoadedQuizzes ==
    UNION { [items : [1..n -> ItemTypes],
             answerKey : [1..n -> IndexLists \cup {NoAnswer, NoIndices}]] : n \in 0..MaxItems }

BrokenFiles ==
    { [kind |-> k, double |-> FALSE, data |-> [items |-> <<>>, answerKey |-> <<>>]] :
        k \in {"unreadable", "garbage", "incomplete"} }

QuizFiles ==
    BrokenFiles \cup { [kind |-> "quiz", double |-> d, data |-> q] :
                         d \in BOOLEAN, q \in LoadedQuizzes }

Range(seq) == { seq[i] : i \in DOMAIN seq }

\* item.options[i] for every index is defined
IndicesDefined(indices) == \A k \in DOMAIN indices : indices[k] + 1 \in DOMAIN FileOptions

\* transformLoadedQuizData(data, startIndex), the entry of item number index
\* (from 0) before the final filter: <<>> for null.
transformItem(data, startIndex, index) ==
    LET answer == data.answerKey[index + 1]
        correctAnswers == [k \in DOMAIN answer |-> FileOptions[answer[k] + 1]]
        isMultipleChoice == data.items[index + 1] = "multi" \/ Len(answer) > 1
    IN  IF answer = NoAnswer THEN <<>>
        ELSE IF ~IndicesDefined(answer) THEN <<>>
        ELSE << [id |-> startIndex + index,
                 question |-> "Q",
                 options |-> FileOptions,
                 correctAnswer |-> IF isMultipleChoice THEN ArrayAnswer(correctAnswers)
                                   ELSE SingleAnswer(correctAnswers),
                 isMultipleChoice |-> IF isMultipleChoice THEN "true" ELSE "false",
                 topic |-> IF "topics" \in DOMAIN data THEN data.topics[index + 1]
                           ELSE FileTopic] >>

RECURSIVE transformFrom(_, _, _)
transformFrom(data, startIndex, index) ==
    IF index >= Len(data.items) THEN <<>>
    ELSE transformItem(data, startIndex, index) \o transformFrom(data, startIndex, index + 1)

transformLoadedQuizData(data, startIndex) == transformFrom(data, startIndex, 0)

\* The callback of data.items.map throws: answer.correctOptionIndices.map is
\* called on an entry that has no correctOptionIndices.
transformThrows(data) == \E i \in DOMAIN data.answerKey : data.answerKey[i] = NoIndices

\* parseAndTransformQuizData: [threw, questions]
parseAndTransformQuizData(file, questionIdCounter) ==
    IF file.kind # "quiz" \/ transformThrows(file.data)
    THEN [threw |-> TRUE, questions |-> <<>>]
    ELSE [threw |-> FALSE,
          questions |-> transformLoadedQuizData(file.data, questionIdCounter)]

\* jsonStrings.forEach of handleFileSelected: acc holds allQuestions and
\* questionIdCounter, threw when a file made the callback throw.
RECURSIVE loadFiles(_, _)
loadFiles(files, acc) ==
    IF files = <<>> THEN acc
    ELSE LET r == parseAndTransformQuizData(Head(files), acc.questionIdCounter)
         IN  IF r.threw THEN [acc EXCEPT !.threw = TRUE]
             ELSE loadFiles(Tail(files),
                            [allQuestions |-> acc.allQuestions \o r.questions,
                             questionIdCounter |-> acc.questionIdCounter + Len(r.questions),
                             threw |-> FALSE])

\* ------------------------------------------------- assessment selection
\* The ids of the four parts of the curriculum, 'part-i' to 'part-iv'.
PartIds == 1..4

\* topicToPartMap.get(title): the part of a chapter or section title, 0
\* (undefined) for a part title and for a title that is not in the curriculum.
topicToPartMap(title) ==
    IF Len(title) \in {2, 3} /\ title[1] \in PartIds THEN title[1] ELSE 0

\* distribution, in percent
distribution == <<15, 35, 15, 35>>

\* Math.round(a / b) for positive a and b
Round(a, b) == (2 * a + b) \div (2 * b)

\* The count of a part as it would be with the questions shared equally.
EqualShare(partId) == ASSESSMENT_QUESTIONS \div 4

\* count of a part: Math.round(ASSESSMENT_QUESTIONS * percentage)
PartCount(partId) == Round(ASSESSMENT_QUESTIONS * distribution[partId], 100)

\* categorizedQuestions[partId], as the positions of its questions in
\* allQuestions
RECURSIVE categorizedFrom(_, _, _)
categorizedFrom(allQuestions, partId, i) ==
    IF i > Len(allQuestions) THEN <<>>
    ELSE (IF topicToPartMap(allQuestions[i].topic) = partId THEN <<i>> ELSE <<>>)
            \o categorizedFrom(allQuestions, partId, i + 1)

categorizedQuestions(allQuestions, partId) == categorizedFrom(allQuestions, partId, 1)

Reverse(s) == [i \in DOMAIN s |-> s[Len(s) + 1 - i]]
Rotate(s, k) == [i \in DOMAIN s |-> s[((i - 1 + k) % Len(s)) + 1]]

\* array.sort(() => 0.5 - Math.random()): some permutation of the array.
\* The orders tried are the rotations by up to MaxShift and their reversals.
Shuffles(s) ==
    IF s = <<>> THEN {s}
    ELSE { Rotate(s, k) : k \in 0..MaxShift } \cup { Reverse(Rotate(s, k)) : k \in 0..MaxShift }

\* What one part adds to selectedQuestions: its whole pool when that is
\* short of the count, else the first count of a shuffle of the pool.
PartSelections(allQuestions, partId) ==
    LET count == PartCount(partId)
        pool == categorizedQuestions(allQuestions, partId)
    IN  IF Len(pool) < count THEN {pool}
        ELSE { SubSeq(shuffled, 1, count) : shuffled \in Shuffles(pool) }

\* The selections the forEach over distribution can end with, the parts
\* taken in their order.
RECURSIVE SelectionsFrom(_, _)
SelectionsFrom(allQuestions, partId) ==
    IF partId \notin PartIds THEN {<<>>}
    ELSE { first \o rest : first \in PartSelections(allQuestions, partId),
                           rest \in SelectionsFrom(allQuestions, partId + 1) }

\* selectedQuestions after the last shuffle and slice(0, ASSESSMENT_QUESTIONS)
FinalSelections(allQuestions) ==
    UNION { { SubSeq(shuffled, 1, Min(ASSESSMENT_QUESTIONS, Len(shuffled))) :
                shuffled \in Shuffles(selected) } :
            selected \in SelectionsFrom(allQuestions, 1) }

\* A question bank file with, for every part, a number of questions on a
\* chapter of that part, and before them a number on an unknown topic.
BankTopics(unknown, perPart) ==
    [i \in 1..unknown |-> UnknownTitle]
        \o [i \in 1..perPart[1] |-> <<1, 1>>] \o [i \in 1..perPart[2] |-> <<2, 1>>]
        \o [i \in 1..perPart[3] |-> <<3, 1, 1>>] \o [i \in 1..perPart[4] |-> <<4, 1>>]

Bank(unknown, perPart) ==
    LET topics == BankTopics(unknown, perPart)
    IN  [kind |-> "quiz", double |-> FALSE,
         data |-> [items |-> [i \in DOMAIN topics |-> "single"],
                   answerKey |-> [i \in DOMAIN topics |-> <<0>>],
                   topics |-> topics]]

\* The files an assessment is started with: a bank with questions to spare,
\* a bank short in one part, a bank with no question of one part and with
\* questions on an unknown topic, a bank of half the size, and files that
\* cannot be read or parsed.
AssessmentFileContents ==
    { f \in BrokenFiles : f.kind \in {"unreadable", "garbage"} }
        \cup { Bank(0, <<7, 15, 6, 14>>), Bank(0, <<5, 15, 6, 14>>),
               Bank(2, <<0, 20, 6, 14>>), Bank(0, <<3, 7, 3, 7>>) }

\* ---------------------------------------------------------- quiz history
\* A history item: date stands for the whole of settings, date and
\* timeTaken; a result is "lean" (only isCorrect) or "full" (a QuizResult,
\* with its question); hasResults is false for an item with no results list.
HistoryItem(date, results) == [date |-> date, hasResults |-> TRUE, results |-> results]
ItemWithoutResults(date) == [date |-> date, hasResults |-> FALSE, results |-> <<>>]

\* What localStorage holds under the key: nothing ("absent", getItem
\* returns null), the empty string, a text that is not JSON ("garbage"), the
\* JSON of a value that is not an array, or the JSON of an array of items.
NoStoredValue == [kind |-> "absent", items |-> <<>>]

\* JSON.stringify of a history, and JSON.parse of it back
StoredArray(items) == [kind |-> "array", items |-> items]

\* useState<QuizHistoryItem[]>([]), the load effect not yet run; found is
\* the storedHistory of the last run of the effect.
NoHistory == [loaded |-> FALSE, items |-> <<>>, found |-> NoStoredValue]

\* The hook's state once the effect has run on storedHistory.
Loaded(items, storedHistory) == [loaded |-> TRUE, items |-> items, found |-> storedHistory]

\* n lean items, the most recent first
LeanItems(n) == [i \in 1..n |-> HistoryItem(1 - i, <<"lean">>)]

StoredLengths == {0, 1, MAX_HISTORY_ITEMS - 1, MAX_HISTORY_ITEMS, MAX_HISTORY_ITEMS + 1}

\* The values the key is found with when the application starts.
StoredValues ==
    {NoStoredValue}
        \cup { [kind |-> k, items |-> <<>>] : k \in {"empty", "garbage", "notArray"} }
        \cup { StoredArray(LeanItems(n)) : n \in StoredLengths }
        \cup { StoredArray(<<ItemWithoutResults(0)>>),
               StoredArray(<<HistoryItem(0, <<"lean">>), ItemWithoutResults(-1)>>),
               StoredArray(<<HistoryItem(0, <<"full", "full">>)>>),
               StoredArray(<<HistoryItem(0, <<"lean", "full">>)>>),
               StoredArray(<<HistoryItem(0, <<>>)>>) }

\* if (storedHistory): null and the empty string are skipped
StoredTruthy(stored) == stored.kind \notin {"absent", "empty"}

\* JSON.parse(storedHistory) throws
ParseThrows(stored) == stored.kind = "garbage"

\* The load effect as it would be if nothing could throw after the parse.
SanitizeNeverThrows(stored) == FALSE

\* parsedHistory.map(...) throws: parsedHistory has no map, or an item has no
\* results to call map on
SanitizeThrows(stored) ==
    \/ stored.kind = "notArray"
    \/ \E i \in DOMAIN stored.items : ~stored.items[i].hasResults

\* item.results.map(r => ({ isCorrect: r.isCorrect }))
leanResults(results) == [k \in DOMAIN results |-> "lean"]

\* sanitizedHistory
sanitizedHistory(parsedHistory) ==
    SubSeq([i \in DOMAIN parsedHistory |->
               [parsedHistory[i] EXCEPT !.results = leanResults(@)]],
           1, Min(Len(parsedHistory), MAX_HISTORY_ITEMS))

\* needsResave: the first result of some item has a question
needsResave(parsedHistory) ==
    \E i \in DOMAIN parsedHistory :
        /\ parsedHistory[i].results # <<>>
        /\ parsedHistory[i].results[1] = "full"

\* The new history as it would be without the slice.
UncappedHistory(item, prevHistory) == <<item>> \o prevHistory

\* [item, ...prevHistory].slice(0, MAX_HISTORY_ITEMS)
updatedHistory(item, prevHistory) ==
    SubSeq(<<item>> \o prevHistory, 1, Min(Len(prevHistory) + 1, MAX_HISTORY_ITEMS))

\* The results lists saveQuizToHistory is called with.
SavedResults == { <<"lean", "lean">>, <<"full", "full">> }

\* ------------------------------------------------------- robustJsonParse
\* A text is a sequence of tokens: "F" a code fence (three backquotes), "J"
\* the word json, "W" a white-space character, "C" a citation marker
\* ([cite_start: ...] or [cite_end: ...]), "{" and "}", "Q" a double quote,
\* "E" an escaped double quote (backslash, quote), "P" and "a" any other
\* character of prose and of a string.
Fence == "F"
StringTokens == {"a", "{", "}", "Q", Fence, "C"}
ProseTokens == {"P", "{", "}", "W", Fence, "C"}

\* A JSON value is an object with one string member, or a string; content
\* is the character sequence of that string.
JsonObject(content) == [type |-> "object", content |-> content]
JsonString(content) == [type |-> "string", content |-> content]

\* The escapes of a string literal: a quote is written backslash-quote.
Escape(content) == [i \in DOMAIN content |-> IF content[i] = "Q" THEN "E" ELSE content[i]]
Unescape(body) == [i \in DOMAIN body |-> IF body[i] = "E" THEN "Q" ELSE body[i]]

\* JSON.stringify(value)
JsonStringify(value) ==
    IF value.type = "object"
    THEN <<"{", "Q">> \o Escape(value.content) \o <<"Q", "}">>
    ELSE <<"Q">> \o Escape(value.content) \o <<"Q">>

\* String.prototype.trim
RECURSIVE TrimLeft(_)
TrimLeft(text) ==
    IF text # <<>> /\ Head(text) = "W" THEN TrimLeft(Tail(text)) ELSE text

RECURSIVE TrimRight(_)
TrimRight(text) ==
    IF text # <<>> /\ text[Len(text)] = "W"
    THEN TrimRight(SubSeq(text, 1, Len(text) - 1)) ELSE text

Trim(text) == TrimRight(TrimLeft(text))

\* A string literal: a quote, characters none of which is a bare quote, a
\* quote.
IsStringLiteral(text) ==
    /\ Len(text) >= 2
    /\ text[1] = "Q"
    /\ text[Len(text)] = "Q"
    /\ \A i \in 2..(Len(text) - 1) : text[i] # "Q"

\* JSON.parse(text): [threw, value], value being <<>> or the value parsed.
JsonParse(text) ==
    LET t == Trim(text)
        inner == IF Len(t) >= 2 THEN Trim(SubSeq(t, 2, Len(t) - 1)) ELSE <<>>
    IN  IF IsStringLiteral(t)
        THEN [threw |-> FALSE,
              value |-> <<JsonString(Unescape(SubSeq(t, 2, Len(t) - 1)))>>]
        ELSE IF Len(t) >= 2 /\ t[1] = "{" /\ t[Len(t)] = "}" /\ IsStringLiteral(inner)
        THEN [threw |-> FALSE,
              value |-> <<JsonObject(Unescape(SubSeq(inner, 2, Len(inner) - 1)))>>]
        ELSE [threw |-> TRUE, value |-> <<>>]

\* Step 1: the citation markers are removed and the text is trimmed.
WithoutCitations(jsonString) == Trim(SelectSeq(jsonString, LAMBDA t : t # "C"))

\* The end of the shortest non-empty capture that starts at position s and
\* is followed by white space and a fence; 0 when there is none.
CaptureEnd(text, s) ==
    LET ends == { e \in s..Len(text) :
                    \E k \in (e + 1)..Len(text) :
                        /\ text[k] = Fence
                        /\ \A m \in (e + 1)..(k - 1) : text[m] = "W" }
    IN  IF ends = {} THEN 0 ELSE CHOOSE e \in ends : \A f \in ends : e <= f

\* The number of white-space characters from position p on.
RECURSIVE SpacesFrom(_, _)
SpacesFrom(text, p) ==
    IF p <= Len(text) /\ text[p] = "W" THEN 1 + SpacesFrom(text, p + 1) ELSE 0

\* The ways the regular expression can begin its capture after the fence at
\* position i, in the order it tries them: with the word json taken before
\* without, and with more white space taken before less.
CaptureStarts(text, i) ==
    LET after(p) == [w \in 1..(SpacesFrom(text, p) + 1) |-> p + SpacesFrom(text, p) + 1 - w]
    IN  (IF i + 1 <= Len(text) /\ text[i + 1] = "J" THEN after(i + 2) ELSE <<>>)
            \o after(i + 1)

\* The capture of the match that opens with the fence at position i: <<>>
\* when there is no match there, else the captured text in a tuple.
CaptureAt(text, i) ==
    LET starts == SelectSeq(CaptureStarts(text, i), LAMBDA s : CaptureEnd(text, s) # 0)
    IN  IF text[i] # Fence \/ starts = <<>> THEN <<>>
        ELSE <<SubSeq(text, starts[1], CaptureEnd(text, starts[1]))>>

\* Step 2: text.match of the fenced block, the leftmost match.
markdownMatch(text) ==
    LET opens == { i \in DOMAIN text : CaptureAt(text, i) # <<>> }
    IN  IF opens = {} THEN <<>>
        ELSE CaptureAt(text, CHOOSE i \in opens : \A j \in opens : i <= j)

\* Step 3: from the first opening brace to the last closing one.
BraceSpan(text) ==
    LET opening == { i \in DOMAIN text : text[i] = "{" }
        closing == { i \in DOMAIN text : text[i] = "}" }
        firstBrace == CHOOSE i \in opening : \A j \in opening : i <= j
        lastBrace == CHOOSE i \in closing : \A j \in closing : i >= j
    IN  IF opening # {} /\ closing # {} /\ lastBrace > firstBrace
        THEN SubSeq(text, firstBrace, lastBrace)
        ELSE text

\* robustJsonParse(jsonString) on a text: [threw, value]
robustJsonParseText(jsonString) ==
    LET cleaned == WithoutCitations(jsonString)
        match == markdownMatch(cleaned)
        unwrapped == IF match # <<>> THEN Trim(match[1]) ELSE cleaned
    IN  JsonParse(BraceSpan(unwrapped))

\* The objects and the prose the parser is tried on.
ParsedObjects == { JsonObject(content) : content \in SeqsOf(StringTokens, 0, MaxContent) }
Proses == SeqsOf(ProseTokens, 0, MaxProse)

\* A fenced block around the JSON of the object, with or without the word
\* json after the opening fence, between a leading and a trailing prose.
FencedText(leading, tagged, object, trailing) ==
    leading \o <<Fence>> \o (IF tagged THEN <<"J">> ELSE <<>>) \o <<"W">>
        \o JsonStringify(object) \o <<"W", Fence>> \o trailing

\* The texts handed to the parser: the JSON of an object as it is, in a
\* fenced block between proses, and encoded a second time as a JSON string
\* (of the objects without a quote, whose second encoding has no backslash
\* to escape).
ParserInputs ==
    { [form |-> "plain", object |-> o, text |-> JsonStringify(o)] : o \in ParsedObjects }
        \cup { [form |-> "fenced", object |-> o, text |-> FencedText(l, j, o, t)] :
                 l \in Proses, j \in BOOLEAN, o \in ParsedObjects, t \in Proses }
        \cup { [form |-> "double", object |-> o,
                text |-> JsonStringify(JsonString(JsonStringify(o)))] :
                 o \in { p \in ParsedObjects : \A i \in DOMAIN p.content : p.content[i] # "Q" } }

\* --------------------------------------------------------------- the state
VARIABLES
    settings,        \* SetupPage: settings {topics, difficulty, numberOfQuestions}
    mode,            \* SetupPage: mode
    assessmentFiles, \* SetupPage: number of uploaded assessment files
    lastToggle,      \* the last handleTopicChange call: its arguments and outcome
    checkedByClick,  \* the selected titles whose own checkbox was checked last
    isLoading,       \* QuizProvider: isLoading
    error,           \* QuizProvider: error
    quiz,            \* QuizProvider: settings and questions, started once startQuiz ran
    page,            \* the route shown: "setup" or "quiz"
    run,             \* the handleStartQuiz call in progress: its locals
    sent,            \* the generateQuestions calls of the last start attempt
    lastStart,       \* the last start attempt: what the handler saw when called
    gen,             \* the generateQuestions call in progress: its locals and result
    pending,         \* the number of callGemini requests not yet settled
    generator,       \* QuestionGeneratorPage: topic, isLoading, error, generatedQuestion
    load,            \* handleFileSelected: the files being read
    assessment,      \* the last handleStartAssessmentQuiz call that read its files
    history,         \* useQuizHistory: history, and whether the load effect has run
    storage,         \* localStorage: the value under HISTORY_STORAGE_KEY
    saves,           \* the number of saveQuizToHistory calls made
    parser,          \* a robustJsonParse call: its argument and its outcome
    quizResults,     \* QuizProvider: results
    session          \* QuizEnginePage: currentQuestionIndex, selectedAnswers, showFeedback

toggleLog == <<lastToggle, checkedByClick>>
setupVars == <<settings, mode, assessmentFiles, toggleLog>>
contextVars == <<isLoading, error, quiz, page>>
runVars == <<run, sent, lastStart>>
historyVars == <<history, storage, saves>>
quizVars == <<quizResults, session>>
vars == <<settings, mode, assessmentFiles, lastToggle, checkedByClick, isLoading, error, quiz,
          page, run, sent, lastStart, gen, pending, generator, load, assessment,
          history, storage, saves, parser, quizResults, session>>

isSimuladoMode == mode \in {"timed", "timed_half"}
isAssessmentMode == mode = "assessment"
isGeneratorMode == ~isSimuladoMode /\ ~isAssessmentMode

NoToggle == [topic |-> <<>>, checked |-> FALSE, accepted |-> FALSE]
NoSettings == [topics |-> {}, difficulty |-> {}, numberOfQuestions |-> 0, mode |-> "practice"]
NoQuiz == [started |-> FALSE, settings |-> NoSettings, questions |-> <<>>]
RunIdle ==
    [pc |-> "idle", fullSettings |-> NoSettings, questionsPerTopic |-> 0, todo |-> {},
     topic |-> <<>>, allQuestions |-> <<>>, questionId |-> 0]
GenIdle ==
    [status |-> "idle", topic |-> <<>>, count |-> 0, results |-> <<>>,
     parsed |-> <<>>, ok |-> FALSE, reason |-> ""]
NoStart == [made |-> FALSE, mode |-> "practice", leaves |-> {}, files |-> 0]
GeneratorInitial ==
    [topic |-> <<1, 1>>, isLoading |-> FALSE, error |-> Null, generatedQuestion |-> <<>>]

\* The state after the providers and the pages are constructed.
\* allQuestions are the questions parsed from the files, selected the
\* positions in allQuestions of the questions the quiz was started with.
NoAssessment == [made |-> FALSE, allQuestions |-> <<>>, selected |-> <<>>]

\* QuizEnginePage as mounted.
NoSession == [currentQuestionIndex |-> 0, selectedAnswers |-> <<>>, showFeedback |-> FALSE]

InitSetup ==
    /\ settings = InitialSettings
    /\ mode = "practice"
    /\ assessmentFiles = 0
    /\ lastToggle = NoToggle
    /\ checkedByClick = {}

\* No robustJsonParse call has been made.
NoParse == [form |-> "none", object |-> JsonObject(<<>>), text |-> <<>>, outcome |-> <<>>]

\* The provider as constructed, the set-up page shown.
InitProvider ==
    /\ isLoading = FALSE
    /\ error = Null
    /\ quiz = NoQuiz
    /\ page = "setup"

InitPages ==
    /\ run = RunIdle
    /\ sent = <<>>
    /\ lastStart = NoStart
    /\ gen = GenIdle
    /\ pending = 0
    /\ generator = GeneratorInitial
    /\ load = <<>>
    /\ assessment = NoAssessment
    /\ history = NoHistory
    /\ saves = 0
    /\ quizResults = <<>>
    /\ session = NoSession

InitSession == InitProvider /\ InitPages

InitRest ==
    /\ storage = NoStoredValue
    /\ parser = NoParse
    /\ InitSession

\* ------------------------------------------------------ set-up page: form
\* A click on a topic checkbox (a TopicItem of the active part, or the
\* "Select/Deselect All" box of a part): the box shows selectedTopics.has(title),
\* the click asks for the opposite.
HandleTopicChange(topic) ==
    LET checked == topic \notin settings.topics
        accepted == ToggledTopics(settings, topic, checked) # {}
    IN  /\ page = "setup"
        /\ isGeneratorMode
        /\ settings' = TopicChange(settings, topic, checked)
        /\ lastToggle' = [topic |-> topic, checked |-> checked, accepted |-> accepted]
        /\ checkedByClick' =
               IF accepted
               THEN (IF checked THEN checkedByClick \cup {topic} ELSE checkedByClick)
                        \cap settings'.topics
               ELSE checkedByClick
        /\ UNCHANGED <<mode, assessmentFiles, contextVars, runVars, gen, pending, generator, load, assessment, historyVars, parser, quizVars>>

\* The set-up page is entered from the results page with a non-empty list
\* of weak topics: the page is mounted anew and the effect runs.
WeakTopicsEffect(weakTopics) ==
    /\ page = "setup"
    /\ settings' = WeakTopicsSettings(weakTopics)
    /\ mode' = "practice"
    /\ assessmentFiles' = 0
    /\ lastToggle' = NoToggle
    /\ checkedByClick' = {}
    /\ UNCHANGED <<contextVars, runVars, gen, pending, generator, load, assessment, historyVars, parser, quizVars>>

SliderChange(n) ==
    /\ page = "setup"
    /\ isGeneratorMode
    /\ settings' = [settings EXCEPT !.numberOfQuestions = n]
    /\ UNCHANGED <<mode, assessmentFiles, toggleLog, contextVars, runVars,
                   gen, pending, generator, load, assessment, historyVars, parser, quizVars>>

SetMode(value) ==
    /\ page = "setup"
    /\ mode' = value
    /\ UNCHANGED <<settings, assessmentFiles, toggleLog, contextVars, runVars,
                   gen, pending, generator, load, assessment, historyVars, parser, quizVars>>

Init == InitSetup /\ InitRest

Next ==
    \/ \E topic \in allTopicTitles : HandleTopicChange(topic)
    \/ \E w \in WeakLists : WeakTopicsEffect(w)
    \/ \E n \in 1..MaxSlider : SliderChange(n)
    \/ \E value \in QuizModes : SetMode(value)

Spec == Init /\ [][Next]_vars

\* ----------------------------------------------- generateQuestions (service)
\* The loop of generateQuestions as it would be if it started the requests of
\* all its iterations together.
AllRequestsAtOnce(count) == count

\* The requests generateQuestions has in flight once it has called callGemini
\* with count questions still to make: the loop awaits each callGemini before
\* its next iteration.
RequestsIssued(count) == 1

NewCall(topic, count) ==
    [status |-> "awaiting", topic |-> topic, count |-> count, results |-> <<>>,
     parsed |-> <<>>, ok |-> FALSE, reason |-> ""]

\* The callGemini promise of the call in progress settles with raw: the rest
\* of the loop body runs, and either the function returns or its next
\* iteration calls callGemini again.
GeminiResolves(raw) ==
    /\ gen.status = "awaiting"
    /\ LET step == generateQuestionsStep(raw)
           results == gen.results \o step.push
       IN  /\ gen' = IF step.returns
                     THEN [gen EXCEPT !.status = "done", !.ok = FALSE,
                                      !.reason = step.reason, !.parsed = step.parsed]
                     ELSE IF Len(results) < gen.count
                     THEN [gen EXCEPT !.results = results, !.parsed = step.parsed]
                     ELSE [gen EXCEPT !.status = "done", !.ok = TRUE,
                                      !.results = results, !.parsed = step.parsed]
           /\ pending' = IF ~step.returns /\ Len(results) < gen.count
                         THEN pending - 1 + RequestsIssued(gen.count - Len(results))
                         ELSE pending - 1
    /\ UNCHANGED <<setupVars, contextVars, runVars, generator, load, assessment, historyVars, parser, quizVars>>

\* ------------------------------------------------ set-up page: start a quiz
AssessmentFilesNotChecked(files) == FALSE

\* assessmentFiles.length === 0
NoAssessmentFiles(files) == files = 0

\* settings.topics is an array in the order the toggles built it, and the
\* loop visits it in that order: the model keeps a set and lets the loop
\* take the remaining topics in any order.  In the simulator modes the array
\* is allTopicTitles, in its own order.
NextTopics(todo, m) ==
    IF m \in {"timed", "timed_half"}
    THEN { t \in todo : \A u \in todo \ {t} : Precedes(t, u) }
    ELSE todo

\* The for loop of handleStartQuiz from the top of an iteration, r being the
\* locals: the next generateQuestions call, or the code after the loop.
ContinueRun(r, log) ==
    LET n == r.fullSettings.numberOfQuestions
        count == Min(r.questionsPerTopic, n - Len(r.allQuestions))
        questions == SubSeq(r.allQuestions, 1, Min(n, Len(r.allQuestions)))
    IN  IF r.todo # {} /\ Len(r.allQuestions) < n /\ count > 0
        THEN \E topic \in NextTopics(r.todo, r.fullSettings.mode) :
                /\ run' = [r EXCEPT !.pc = "generating", !.topic = topic,
                                    !.todo = r.todo \ {topic}]
                /\ gen' = NewCall(topic, count)
                /\ pending' = pending + RequestsIssued(count)
                /\ sent' = Append(log, [topic |-> topic, count |-> count])
                /\ isLoading' = TRUE
                /\ error' = IF r.pc = "idle" THEN Null ELSE error
                /\ UNCHANGED <<quiz, page>>
        ELSE /\ run' = RunIdle
             /\ gen' = GenIdle
             /\ pending' = pending
             /\ sent' = log
             /\ isLoading' = FALSE
             /\ IF questions = <<>>
                THEN /\ error' = "The AI failed to generate any questions for the selected topics."
                     /\ UNCHANGED <<quiz, page>>
                ELSE /\ quiz' = [started |-> TRUE, settings |-> r.fullSettings,
                                 questions |-> questions]
                     /\ error' = Null
                     /\ page' = "quiz"

\* A click on the start button.  The button is disabled while isLoading; the
\* handler makes its own checks of the topics and of the assessment files.
HandleStartQuiz ==
    LET eff == effectiveSettings(settings, mode)
        finalTopics == leafFilter(eff.topics)
    IN  /\ page = "setup"
        /\ ~isLoading
        /\ lastStart' = [made |-> TRUE, mode |-> mode, leaves |-> finalTopics,
                         files |-> assessmentFiles]
        /\ IF mode = "assessment"
           THEN IF NoAssessmentFiles(assessmentFiles)
                THEN /\ error' = "Please upload at least one question bank file for the assessment."
                     /\ sent' = <<>>
                     /\ UNCHANGED <<isLoading, quiz, page, run, gen, pending>>
                ELSE /\ isLoading' = TRUE
                     /\ error' = Null
                     /\ run' = [RunIdle EXCEPT !.pc = "readingAssessmentFiles"]
                     /\ sent' = <<>>
                     /\ UNCHANGED <<quiz, page, gen, pending>>
           ELSE IF finalTopics = {}
                THEN /\ error' = "Please select at least one specific sub-topic to generate questions."
                     /\ isLoading' = FALSE
                     /\ sent' = <<>>
                     /\ UNCHANGED <<quiz, page, run, gen, pending>>
                ELSE ContinueRun([RunIdle EXCEPT
                                     !.fullSettings = [topics |-> finalTopics,
                                                       difficulty |-> eff.difficulty,
                                                       numberOfQuestions |-> eff.numberOfQuestions,
                                                       mode |-> mode],
                                     !.questionsPerTopic =
                                         Ceil(eff.numberOfQuestions, Cardinality(finalTopics)),
                                     !.todo = finalTopics],
                                 <<>>)
        /\ UNCHANGED <<setupVars, generator, load, assessment, historyVars, parser, quizVars>>

\* handleStartQuiz as it would be if a failed generateQuestions call ended the
\* loop: the remaining topics are not requested.
GenerateQuestionsReturnsAborting ==
    /\ run.pc = "generating"
    /\ gen.status = "done"
    /\ LET acc == mapGenerated(IF gen.ok THEN gen.results ELSE <<>>,
                               [allQuestions |-> run.allQuestions,
                                questionId |-> run.questionId],
                               run.fullSettings.numberOfQuestions, run.topic)
       IN  ContinueRun([run EXCEPT !.allQuestions = acc.allQuestions,
                                   !.questionId = acc.questionId,
                                   !.todo = IF gen.ok THEN run.todo ELSE {}],
                       sent)
    /\ UNCHANGED <<setupVars, lastStart, generator, load, assessment, historyVars, parser, quizVars>>

\* handleStartQuiz as it would be without its catch and finally blocks: an
\* exception raised by the mapping ends the handler where it is raised.
GenerateQuestionsReturnsUncaught ==
    /\ run.pc = "generating"
    /\ gen.status = "done"
    /\ LET data == IF gen.ok THEN gen.results ELSE <<>>
           locals == [allQuestions |-> run.allQuestions, questionId |-> run.questionId]
           acc == mapGenerated(data, locals, run.fullSettings.numberOfQuestions, run.topic)
       IN  IF mappingThrows(data, locals, run.fullSettings.numberOfQuestions, run.topic)
           THEN /\ run' = RunIdle
                /\ gen' = GenIdle
                /\ UNCHANGED <<isLoading, error, quiz, page, pending, sent>>
           ELSE ContinueRun([run EXCEPT !.allQuestions = acc.allQuestions,
                                       !.questionId = acc.questionId],
                            sent)
    /\ UNCHANGED <<setupVars, lastStart, generator, load, assessment, historyVars, parser, quizVars>>

\* handleStartQuiz resumes with the result of generateQuestions: the
\* questions of result.data are mapped, then the loop goes on; an exception
\* raised by the mapping goes to the catch block, and the finally block runs.
GenerateQuestionsReturns ==
    /\ run.pc = "generating"
    /\ gen.status = "done"
    /\ LET data == IF gen.ok THEN gen.results ELSE <<>>
           locals == [allQuestions |-> run.allQuestions, questionId |-> run.questionId]
           acc == mapGenerated(data, locals, run.fullSettings.numberOfQuestions, run.topic)
       IN  IF mappingThrows(data, locals, run.fullSettings.numberOfQuestions, run.topic)
           THEN /\ error' = "opt.replace is not a function"
                /\ isLoading' = FALSE
                /\ run' = RunIdle
                /\ gen' = GenIdle
                /\ UNCHANGED <<quiz, page, pending, sent>>
           ELSE ContinueRun([run EXCEPT !.allQuestions = acc.allQuestions,
                                       !.questionId = acc.questionId],
                            sent)
    /\ UNCHANGED <<setupVars, lastStart, generator, load, assessment, historyVars, parser, quizVars>>

\* The set-up page as a short session leaves it: the initial form, one topic
\* toggled, or the page entered with a list of weak topics; the slider
\* moved; any mode.  The form is behind the mode in the simulator and
\* assessment modes, where it is left as constructed.
StartSettings ==
    { [s EXCEPT !.numberOfQuestions = n] :
        s \in {InitialSettings}
                \cup { TopicChange(InitialSettings, t, t \notin InitialSettings.topics) :
                         t \in allTopicTitles }
                \cup { WeakTopicsSettings(w) : w \in WeakLists },
        n \in 1..MaxSlider }

InitStart ==
    /\ mode \in QuizModes
    /\ settings \in IF mode = "practice" THEN StartSettings ELSE {InitialSettings}
    /\ assessmentFiles = 0
    /\ lastToggle = NoToggle
    /\ checkedByClick = {}
    /\ InitRest

Option(prefix, text) == [prefix |-> prefix, text |-> text]
Candidate(options, keys, flag) ==
    [question |-> "Q", options |-> options, answer_keys |-> keys, isMultipleChoice |-> flag]

\* The objects the model answers with during a quiz start: a single-answer
\* question, a multiple-answer one, one with a repeated key, one whose
\* correct option has no text, one without the flag, one without keys.
StartCandidates ==
    { Candidate(<<Option(TRUE, "x"), Option(TRUE, "y")>>, <<<<65>>>>, "false"),
      Candidate(<<Option(TRUE, "x"), Option(TRUE, "y")>>, <<<<65>>, <<66>>>>, "true"),
      Candidate(<<Option(TRUE, "x"), Option(TRUE, "y")>>, <<<<65>>, <<65>>>>, "true"),
      Candidate(<<Option(TRUE, ""), Option(TRUE, "y")>>, <<<<65>>>>, "false"),
      Candidate(<<Option(TRUE, "x"), Option(TRUE, "y")>>, <<<<65>>, <<66>>>>, "undefined"),
      Candidate(<<Option(TRUE, "x"), Option(TRUE, "y")>>, <<>>, "false") }

NextStart ==
    \/ HandleStartQuiz
    \/ \E raw \in FailedResponses : GeminiResolves(raw)
    \/ \E c \in StartCandidates : GeminiResolves(ObjectResponse(c))
    \/ GenerateQuestionsReturns

SpecStart == InitStart /\ [][NextStart]_vars

\* ------------------------------------------- set-up page: start assessment
\* The user picks n files in the assessment file input.
HandleAssessmentFileChange(n) ==
    /\ page = "setup"
    /\ ~isLoading
    /\ assessmentFiles' = n
    /\ UNCHANGED <<settings, mode, toggleLog, contextVars, runVars, gen, pending,
                   generator, load, assessment, historyVars, parser, quizVars>>

\* The message of a failure that reports no counts.
UnknownAssessmentError(available) == "An unknown error occurred during assessment setup."

NotEnoughQuestions(available) ==
    "Not enough questions. Uploaded files contain only " \o ToString(available)
        \o " questions, but " \o ToString(ASSESSMENT_QUESTIONS)
        \o " are needed for a full assessment."

\* startQuiz(finalSettings, selectedQuestions.map((q, i) => ({ ...q, id: i })))
AssessmentQuiz(allQuestions, selected) ==
    [started |-> TRUE,
     settings |-> [effectiveSettings(settings, mode) EXCEPT !.topics = {UnknownTitle}],
     questions |-> [i \in DOMAIN selected |-> [allQuestions[selected[i]] EXCEPT !.id = i - 1]]]

\* The file.text() promises of handleStartAssessmentQuiz settle with the
\* contents files, and the handler runs to its end.
AssessmentFilesReadFrom(contents) ==
    /\ run.pc = "readingAssessmentFiles"
    /\ \E files \in SeqsOf(contents, lastStart.files, lastStart.files) :
          LET acc == loadFiles(files, [allQuestions |-> <<>>, questionIdCounter |-> 0,
                                       threw |-> FALSE])
          IN  IF \E i \in DOMAIN files : files[i].kind = "unreadable"
              THEN /\ error' = "The file could not be read."
                   /\ assessment' = NoAssessment
                   /\ UNCHANGED <<quiz, page>>
              ELSE IF acc.threw
              THEN /\ error' = "Invalid JSON format"
                   /\ assessment' = NoAssessment
                   /\ UNCHANGED <<quiz, page>>
              ELSE IF Len(acc.allQuestions) < ASSESSMENT_QUESTIONS
              THEN /\ error' = NotEnoughQuestions(Len(acc.allQuestions))
                   /\ assessment' = [made |-> TRUE, allQuestions |-> acc.allQuestions,
                                     selected |-> <<>>]
                   /\ UNCHANGED <<quiz, page>>
              ELSE \E selected \in FinalSelections(acc.allQuestions) :
                      /\ quiz' = AssessmentQuiz(acc.allQuestions, selected)
                      /\ page' = "quiz"
                      /\ error' = Null
                      /\ assessment' = [made |-> TRUE, allQuestions |-> acc.allQuestions,
                                        selected |-> selected]
    /\ isLoading' = FALSE
    /\ run' = RunIdle
    /\ UNCHANGED <<setupVars, sent, lastStart, gen, pending, generator, load, historyVars, parser, quizVars>>

AssessmentFilesRead == AssessmentFilesReadFrom(AssessmentFileContents)

InitAssess ==
    /\ mode = "assessment"
    /\ settings = InitialSettings
    /\ assessmentFiles = 0
    /\ lastToggle = NoToggle
    /\ checkedByClick = {}
    /\ InitRest

NextAssess ==
    \/ \E n \in 0..MaxFiles : HandleAssessmentFileChange(n)
    \/ HandleStartQuiz
    \/ AssessmentFilesRead

SpecAssess == InitAssess /\ [][NextAssess]_vars

\* ---------------------------------------------------------- useQuizHistory
\* A component using the hook mounts and its load effect runs.  writeOk tells
\* whether localStorage.setItem succeeds, should the effect call it.
LoadHistory(writeOk) ==
    /\ IF ~StoredTruthy(storage)
       THEN /\ history' = Loaded(<<>>, storage)
            /\ UNCHANGED storage
       ELSE IF ParseThrows(storage) \/ SanitizeThrows(storage)
       THEN /\ storage' = NoStoredValue
            /\ history' = Loaded(<<>>, storage)
       ELSE IF ~needsResave(storage.items)
       THEN /\ history' = Loaded(sanitizedHistory(storage.items), storage)
            /\ UNCHANGED storage
       ELSE IF writeOk
       THEN /\ history' = Loaded(sanitizedHistory(storage.items), storage)
            /\ storage' = StoredArray(sanitizedHistory(storage.items))
       ELSE /\ storage' = NoStoredValue
            /\ history' = Loaded(<<>>, storage)
    /\ UNCHANGED <<setupVars, contextVars, runVars, gen, pending, generator, load,
                   assessment, saves, parser, quizVars>>

\* saveQuizToHistory(item), the item having the given results; the write to
\* localStorage fails when the storage is full.
SaveQuizToHistory(results, writeOk) ==
    /\ history.loaded
    /\ saves < MaxSaves
    /\ LET updated == updatedHistory(HistoryItem(saves + 1, results), history.items)
       IN  /\ history' = [history EXCEPT !.items = updated]
           /\ storage' = IF writeOk THEN StoredArray(updated) ELSE storage
    /\ saves' = saves + 1
    /\ UNCHANGED <<setupVars, contextVars, runVars, gen, pending, generator, load,
                   assessment, parser, quizVars>>

InitHistory ==
    /\ InitSetup
    /\ InitSession
    /\ parser = NoParse
    /\ storage \in StoredValues

NextHistory ==
    \/ \E writeOk \in BOOLEAN : LoadHistory(writeOk)
    \/ \E results \in SavedResults, writeOk \in BOOLEAN : SaveQuizToHistory(results, writeOk)

SpecHistory == InitHistory /\ [][NextHistory]_vars

\* ------------------------------------------------- robustJsonParse calls
\* robustJsonParse is called with the text, and returns or throws.
RobustJsonParse ==
    /\ parser.form # "none"
    /\ parser.outcome = <<>>
    /\ parser' = [parser EXCEPT !.outcome = <<robustJsonParseText(parser.text)>>]
    /\ UNCHANGED <<setupVars, contextVars, runVars, gen, pending, generator, load,
                   assessment, historyVars, quizVars>>

InitParse ==
    /\ InitSetup
    /\ InitSession
    /\ storage = NoStoredValue
    /\ parser \in { [form |-> in.form, object |-> in.object, text |-> in.text,
                      outcome |-> <<>>] : in \in ParserInputs }

NextParse == RobustJsonParse

SpecParse == InitParse /\ [][NextParse]_vars

\* ------------------------------------------------- QuestionGeneratorPage
SetTopic(t) ==
    /\ generator' = [generator EXCEPT !.topic = t]
    /\ UNCHANGED <<setupVars, contextVars, runVars, gen, pending, load, assessment, historyVars, parser, quizVars>>

HandleGenerate ==
    /\ ~generator.isLoading
    /\ generator' = [generator EXCEPT !.isLoading = TRUE, !.error = Null,
                                      !.generatedQuestion = <<>>]
    /\ gen' = NewCall(generator.topic, 1)
    /\ pending' = pending + RequestsIssued(1)
    /\ UNCHANGED <<setupVars, contextVars, runVars, load, assessment, historyVars, parser, quizVars>>

\* handleGenerate resumes with the result of generateQuestions; now is the
\* value of Date.now().
HandleGenerateReturns(now) ==
    /\ generator.isLoading
    /\ gen.status = "done"
    /\ generator' =
          IF gen.ok /\ Len(gen.results) > 0
          THEN IF replaceThrows(gen.results[1])
               THEN [generator EXCEPT !.isLoading = FALSE,
                        !.error = "opt.replace is not a function"]
               ELSE IF mismatchedAnswers(gen.results[1])
               THEN [generator EXCEPT !.isLoading = FALSE,
                        !.error = "AI returned a malformed answer. Please try again."]
               ELSE [generator EXCEPT !.isLoading = FALSE,
                        !.generatedQuestion = <<toQuestion(gen.results[1], now, gen.topic)>>]
          ELSE [generator EXCEPT !.isLoading = FALSE, !.error = gen.reason]
    /\ gen' = GenIdle
    /\ UNCHANGED <<setupVars, contextVars, runVars, pending, load, assessment, historyVars, parser, quizVars>>

InitGen == InitSetup /\ InitRest

NextGen ==
    \/ \E t \in Sections : SetTopic(t)
    \/ HandleGenerate
    \/ \E raw \in FailedResponses : GeminiResolves(raw)
    \/ \E c \in Candidates : GeminiResolves(ObjectResponse(c))
    \/ \E now \in 1..NumTimestamps : HandleGenerateReturns(now)

SpecGen == InitGen /\ [][NextGen]_vars

\* ------------------------------------------------ set-up page: load files
\* The file input changes with a non-empty selection (the button that opens
\* it is disabled while isLoading).
FileSelections == SeqsOf(QuizFiles, 1, MaxFiles)

HandleFileSelectedFrom(selections) ==
    /\ page = "setup"
    /\ ~isLoading
    /\ isLoading' = TRUE
    /\ error' = Null
    /\ \E files \in selections : load' = files
    /\ UNCHANGED <<setupVars, quiz, page, runVars, gen, pending, generator, assessment, historyVars, parser, quizVars>>

HandleFileSelected == HandleFileSelectedFrom(FileSelections)

\* Promise.all(fileReadPromises) settles: the then callback, or the catch
\* callback, and the finally callback.
FileReadsSettle ==
    /\ load # <<>>
    /\ LET r == loadFiles(load, [allQuestions |-> <<>>, questionIdCounter |-> 0,
                                 threw |-> FALSE])
       IN  IF \E i \in DOMAIN load : load[i].kind = "unreadable"
           THEN /\ error' = "Failed to load quiz from file(s): Error reading file"
                /\ UNCHANGED <<quiz, page>>
           ELSE IF r.threw
           THEN /\ error' = "Failed to load quiz from file(s): Error processing file"
                /\ UNCHANGED <<quiz, page>>
           ELSE IF r.allQuestions = <<>>
           THEN /\ error' = "Failed to load quiz from file(s): no valid questions"
                /\ UNCHANGED <<quiz, page>>
           ELSE /\ quiz' = [started |-> TRUE,
                            settings |-> [topics |-> { q.topic : q \in Range(r.allQuestions) },
                                          difficulty |-> {"Medio"},
                                          numberOfQuestions |-> Len(r.allQuestions),
                                          mode |-> "practice"],
                            questions |-> r.allQuestions]
                /\ error' = Null
                /\ page' = "quiz"
    /\ isLoading' = FALSE
    /\ load' = <<>>
    /\ UNCHANGED <<setupVars, runVars, gen, pending, generator, assessment, historyVars, parser, quizVars>>

InitLoad == InitSetup /\ InitRest

NextLoad ==
    \/ HandleFileSelected
    \/ FileReadsSettle

SpecLoad == InitLoad /\ [][NextLoad]_vars

\* ------------------------------------------- the handlers in one session
\* The user follows the side bar link to the single-question generator.
OpenQuestionGenerator ==
    /\ page = "setup"
    /\ ~isLoading
    /\ page' = "generator"
    /\ UNCHANGED <<setupVars, isLoading, error, quiz, runVars, gen, pending, generator,
                   load, assessment, historyVars, parser, quizVars>>

\* The objects the model answers with in such a session: those of a quiz
\* start, and one that passes the validator with an option that is a number.
HandlerCandidates ==
    StartCandidates
        \cup { Candidate(<<Option(TRUE, "x"), NonStringOption>>, <<<<65>>>>, "false") }

\* The form as constructed, the slider at 1, practice mode, no start made.
UntouchedForm ==
    /\ mode = "practice"
    /\ settings = [InitialSettings EXCEPT !.numberOfQuestions = 1]
    /\ ~lastStart.made

InitHandlers == InitStart

\* One session that makes its attempts with any of the handlers: quiz starts
\* in any mode, and, from the untouched form, quiz-file loads and the
\* generator page.
NextHandlers ==
    \/ HandleStartQuiz
    \/ \E raw \in FailedResponses : GeminiResolves(raw)
    \/ \E c \in HandlerCandidates : GeminiResolves(ObjectResponse(c))
    \/ GenerateQuestionsReturns
    \/ mode = "assessment" /\ \E n \in 0..MaxFiles : HandleAssessmentFileChange(n)
    \/ AssessmentFilesRead
    \/ UntouchedForm /\ HandleFileSelected
    \/ FileReadsSettle
    \/ UntouchedForm /\ OpenQuestionGenerator
    \/ page = "generator" /\ HandleGenerate
    \/ \E now \in 1..NumTimestamps : HandleGenerateReturns(now)

SpecHandlers == InitHandlers /\ [][NextHandlers]_vars

\* ------------------------------------------------------- the quiz in progress
\* The value of a correctAnswer that is undefined.
UndefinedText == "undefined value"

\* Array.isArray(question.correctAnswer) ? question.correctAnswer
\*                                       : [question.correctAnswer]
correctAnswers(question) ==
    IF question.correctAnswer.isArray THEN question.correctAnswer.values
    ELSE IF question.correctAnswer.values = <<>> THEN <<UndefinedText>>
    ELSE question.correctAnswer.values

\* The order Array.prototype.sort puts the texts in: by code units,
\* undefined last.
SortOrder == <<"", "x", "y", UndefinedText>>
SortRank(text) == CHOOSE i \in DOMAIN SortOrder : SortOrder[i] = text

\* [...array].sort()
Sorted(array) == SortSeq(array, LAMBDA a, b : SortRank(a) < SortRank(b))

\* The comparison as it would be on the arrays as given.
isCorrectInOrder(question, userAnswer) ==
    /\ Len(correctAnswers(question)) = Len(userAnswer)
    /\ \A i \in DOMAIN userAnswer : correctAnswers(question)[i] = userAnswer[i]

\* isCorrect of submitAnswer
isCorrect(question, userAnswer) ==
    LET sortedCorrect == Sorted(correctAnswers(question))
        sortedUser == Sorted(userAnswer)
    IN  /\ Len(sortedCorrect) = Len(sortedUser)
        /\ \A i \in DOMAIN sortedCorrect : sortedCorrect[i] = sortedUser[i]

\* setResults(prev => [...prev, {question, userAnswer, isCorrect, ...}]); the
\* time spent on the question is left out.
submitAnswer(prev, question, userAnswer) ==
    Append(prev, [question |-> question, userAnswer |-> userAnswer,
                  isCorrect |-> isCorrect(question, userAnswer)])

\* The updater of handleAnswerSelect.
answerSelected(prev, question, option) ==
    IF question.isMultipleChoice = "true"
    THEN IF option \in Range(prev)
         THEN SelectSeq(prev, LAMBDA a : a # option)
         ELSE Append(prev, option)
    ELSE <<option>>

\* Math.round((correctCount / totalCount) * 100) of the results page
percentage(res, questions) ==
    LET correctCount == Cardinality({ i \in DOMAIN res : res[i].isCorrect })
        totalCount == Len(questions)
    IN  (200 * correctCount + totalCount) \div (2 * totalCount)

\* questions[currentQuestionIndex]
CurrentQuestion == quiz.questions[session.currentQuestionIndex + 1]

\* setCurrentQuestionIndex(index), and the effect that depends on
\* currentQuestionIndex: it runs when the index changes.
GoToQuestion(index) ==
    IF index = session.currentQuestionIndex THEN session
    ELSE [currentQuestionIndex |-> index, selectedAnswers |-> <<>>, showFeedback |-> FALSE]

\* A click on an option of the question shown.
HandleAnswerSelect(option) ==
    /\ page = "quiz"
    /\ ~session.showFeedback
    /\ option \in Range(CurrentQuestion.options)
    /\ session' = [session EXCEPT
                      !.selectedAnswers = answerSelected(@, CurrentQuestion, option)]
    /\ UNCHANGED <<setupVars, contextVars, runVars, gen, pending, generator, load,
                   assessment, historyVars, parser, quizResults>>

\* The Check Answer button: shown in practice mode before the feedback.
HandleCheckAnswer ==
    /\ page = "quiz"
    /\ quiz.settings.mode = "practice"
    /\ ~session.showFeedback
    /\ session.selectedAnswers # <<>>
    /\ session' = [session EXCEPT !.showFeedback = TRUE]
    /\ UNCHANGED <<setupVars, contextVars, runVars, gen, pending, generator, load,
                   assessment, historyVars, parser, quizResults>>

\* The Next Question / Finish button: in practice mode it is shown with the
\* feedback, in the other modes it is enabled once an option is selected.
HandleNext ==
    /\ page = "quiz"
    /\ IF quiz.settings.mode = "practice" THEN session.showFeedback
       ELSE session.selectedAnswers # <<>>
    /\ Len(quizResults) < MaxResults
    /\ quizResults' = submitAnswer(quizResults, CurrentQuestion, session.selectedAnswers)
    /\ IF session.currentQuestionIndex < Len(quiz.questions) - 1
       THEN /\ session' = GoToQuestion(session.currentQuestionIndex + 1)
            /\ page' = page
       ELSE /\ page' = "results"
            /\ session' = session
    /\ UNCHANGED <<setupVars, isLoading, error, quiz, runVars, gen, pending, generator,
                   load, assessment, historyVars, parser>>

\* A click on button number index of the QuizNavigator.
OnQuestionSelect(index) ==
    /\ page = "quiz"
    /\ index \in 0..(Len(quiz.questions) - 1)
    /\ session' = GoToQuestion(index)
    /\ UNCHANGED <<setupVars, contextVars, runVars, gen, pending, generator, load,
                   assessment, historyVars, parser, quizResults>>

\* The countdown of a simulator quiz reaches 0.
TimeIsUp ==
    /\ page = "quiz"
    /\ quiz.settings.mode \in {"timed", "timed_half"}
    /\ page' = "results"
    /\ UNCHANGED <<setupVars, isLoading, error, quiz, runVars, gen, pending, generator,
                   load, assessment, historyVars, parser, quizVars>>

\* The candidates the questions of a session are made from: one answer, two
\* answers, the same key twice.
SessionCandidates ==
    { Candidate(<<Option(TRUE, "x"), Option(TRUE, "y")>>, <<<<65>>>>, "false"),
      Candidate(<<Option(TRUE, "x"), Option(TRUE, "y")>>, <<<<65>>, <<66>>>>, "true"),
      Candidate(<<Option(TRUE, "x"), Option(TRUE, "y")>>, <<<<65>>, <<65>>>>, "true") }

\* The quizzes handleStartQuiz starts from such candidates, one topic.
StartedQuizzes ==
    { [started |-> TRUE,
       settings |-> [topics |-> {<<1, 1, 1>>}, difficulty |-> {"Medio"},
                     numberOfQuestions |-> Len(data), mode |-> m],
       questions |-> mapGenerated(data, [allQuestions |-> <<>>, questionId |-> 0],
                                  Len(data), <<1, 1, 1>>).allQuestions] :
        data \in SeqsOf(SessionCandidates, 1, MaxSessionQuestions), m \in {"practice", "timed"} }

\* The state after startQuiz and navigate('/quiz').
InitQuiz ==
    /\ InitSetup
    /\ InitPages
    /\ storage = NoStoredValue
    /\ parser = NoParse
    /\ isLoading = FALSE
    /\ error = Null
    /\ quiz \in StartedQuizzes
    /\ page = "quiz"

NextQuiz ==
    \/ \E option \in Range(SortOrder) : HandleAnswerSelect(option)
    \/ HandleCheckAnswer
    \/ HandleNext
    \/ \E index \in 0..(MaxSessionQuestions - 1) : OnQuestionSelect(index)
    \/ TimeIsUp

SpecQuiz == InitQuiz /\ [][NextQuiz]_vars

\* ------------------------------------------- quiz starts that all succeed
\* The sections of sequence checked one after the other, from settings s.
RECURSIVE CheckedInTurn(_, _)
CheckedInTurn(s, sequence) ==
    IF sequence = <<>> THEN s
    ELSE CheckedInTurn(TopicChange(s, Head(sequence), TRUE), Tail(sequence))

\* The form after up to three sections were checked and the slider moved.
CoverageSettings ==
    { [CheckedInTurn(InitialSettings, sequence) EXCEPT !.numberOfQuestions = n] :
        sequence \in SeqsOf(Sections, 1, 3), n \in 1..MaxQuestions }

\* Candidates that pass the validator and the mapping.
CoverageCandidates ==
    { Candidate(<<Option(TRUE, "x"), Option(TRUE, "y")>>, <<<<65>>>>, "false"),
      Candidate(<<Option(TRUE, "x"), Option(TRUE, "y")>>, <<<<65>>, <<66>>>>, "true") }

InitCoverage ==
    /\ mode = "practice"
    /\ settings \in CoverageSettings
    /\ assessmentFiles = 0
    /\ lastToggle = NoToggle
    /\ checkedByClick = {}
    /\ InitRest

\* Starts in practice mode in which every request of every generateQuestions
\* call is answered with a valid question.
NextCoverage ==
    \/ HandleStartQuiz
    \/ \E c \in CoverageCandidates : GeminiResolves(ObjectResponse(c))
    \/ GenerateQuestionsReturns

SpecCoverage == InitCoverage /\ [][NextCoverage]_vars

\* --------------------------------------------- start attempts that settle
\* The form with one or two sections checked and the slider at 1 or 2, and
\* the untouched form.
LiveSettings ==
    { [CheckedInTurn(InitialSettings, sequence) EXCEPT !.numberOfQuestions = n] :
        sequence \in {<<<<1, 1, 1>>>>, <<<<1, 1, 1>>, <<1, 2, 1>>>>}, n \in 1..MaxSlider }
        \cup {[InitialSettings EXCEPT !.numberOfQuestions = 1]}

\* Assessment files: one that cannot be read, one that is not JSON, a bank
\* too small and a bank of 40 questions of one part.
LiveFileContents ==
    { f \in BrokenFiles : f.kind \in {"unreadable", "garbage"} }
        \cup { Bank(0, <<3, 7, 3, 7>>), Bank(0, <<0, 40, 0, 0>>) }

\* A valid candidate, and one whose mapping raises an exception.
LiveCandidates ==
    { Candidate(<<Option(TRUE, "x"), Option(TRUE, "y")>>, <<<<65>>>>, "false"),
      Candidate(<<Option(TRUE, "x"), NonStringOption>>, <<<<65>>>>, "false") }

InitLive ==
    /\ mode \in {"practice", "assessment"}
    /\ settings \in IF mode = "practice" THEN LiveSettings ELSE {InitialSettings}
    /\ assessmentFiles = 0
    /\ lastToggle = NoToggle
    /\ checkedByClick = {}
    /\ InitRest

\* One session of start attempts: generated quizzes, assessments of at most
\* one file, and loads of one quiz file from the untouched form.
NextLive ==
    \/ HandleStartQuiz
    \/ \E raw \in FailedResponses : GeminiResolves(raw)
    \/ \E c \in LiveCandidates : GeminiResolves(ObjectResponse(c))
    \/ GenerateQuestionsReturns
    \/ mode = "assessment" /\ \E n \in 0..1 : HandleAssessmentFileChange(n)
    \/ AssessmentFilesReadFrom(LiveFileContents)
    \/ UntouchedForm /\ HandleFileSelectedFrom(SeqsOf(QuizFiles, 1, 1))
    \/ FileReadsSettle

\* The outstanding callGemini promise is rejected or resolved.
RequestSettles ==
    \/ \E raw \in FailedResponses : GeminiResolves(raw)
    \/ \E c \in LiveCandidates : GeminiResolves(ObjectResponse(c))

\* Every outstanding request settles, every continuation of an await or of
\* a promise chain runs once its promise has settled, and the file reads
\* settle.
Settles ==
    /\ WF_vars(RequestSettles)
    /\ WF_vars(GenerateQuestionsReturns)
    /\ WF_vars(AssessmentFilesReadFrom(LiveFileContents))
    /\ WF_vars(FileReadsSettle)

SpecLive == InitLive /\ [][NextLive]_vars /\ Settles

\* ================================================================ properties
\* A handleTopicChange call has just acted on a curriculum node and its
\* result was kept.
AcceptedToggle == lastToggle.topic \in allTopicTitles /\ lastToggle.accepted

\* C1: in generator mode the selected-topic set is never empty after any
\* sequence of topic toggles, and a toggle whose computed result would be
\* empty is rejected: it leaves topics, difficulty and numberOfQuestions as
\* they were.
C1_NeverEmptySelection ==
    /\ [](settings.topics # {})
    /\ [][(lastToggle' # lastToggle /\ lastToggle'.topic \in allTopicTitles
             /\ ~lastToggle'.accepted)
          => settings' = settings]_vars

\* A toggle was rejected: the only selected chapter was unchecked.
C1_Witness ==
    /\ lastToggle.topic \in allTopicTitles
    /\ ~lastToggle.checked
    /\ ~lastToggle.accepted
    /\ settings.topics # {}

\* C2: for every curriculum node T with children, parts included: when a
\* check completes the set of children of T, each checked on its own box, T
\* is selected; after an accepted uncheck of one child, T is not selected.
C2_ParentFollowsChildren ==
    (AcceptedToggle /\ Len(lastToggle.topic) > 1) =>
        LET T == TreeParent(lastToggle.topic)
        IN  /\ (lastToggle.checked /\ subTopics(T) \subseteq checkedByClick)
                  => T \in settings.topics
            /\ ~lastToggle.checked => T \notin settings.topics

\* C3: top-down propagation, parts included: an accepted check leaves the
\* topic and all its descendants selected, an accepted uncheck leaves none
\* of them selected.
C3_TopDownPropagation ==
    AcceptedToggle =>
        LET subtree == {lastToggle.topic} \cup TreeDescendants(lastToggle.topic)
        IN  IF lastToggle.checked
            THEN subtree \subseteq settings.topics
            ELSE subtree \cap settings.topics = {}

\* C4: after an accepted uncheck of a topic, no ancestor of the topic in the
\* curriculum tree is selected.
C4_NoAncestorSelected ==
    (AcceptedToggle /\ ~lastToggle.checked) =>
        TreeAncestors(lastToggle.topic) \cap settings.topics = {}

\* ---------------------------------------------------------------- C5, C6
\* C5: every topic handleStartQuiz passes to generateQuestions is the title
\* of a curriculum node without children, in generator mode and in the
\* simulator modes: never a part title, a chapter title or an unknown title.
C5_OnlyLeafTitlesSent ==
    \A i \in DOMAIN sent :
        /\ sent[i].topic \in allTopicTitles
        /\ subTopics(sent[i].topic) = {}

\* The last start attempt was made with an empty leaf-filtered topic set, or
\* in assessment mode without uploaded files.
PreflightCase ==
    /\ lastStart.made
    /\ IF lastStart.mode = "assessment" THEN lastStart.files = 0
       ELSE lastStart.leaves = {}

\* C6: a start attempt with an empty leaf-filtered topic set, or in assessment
\* mode with no uploaded file, sets an error, issues no generation request
\* and does not call startQuiz.
C6_PreflightBlocksRun ==
    PreflightCase =>
        /\ error # Null
        /\ sent = <<>>
        /\ gen.status = "idle"
        /\ run.pc = "idle"
        /\ ~quiz.started

\* A start was attempted in generator mode with only a chapter selected.
C6_Witness ==
    /\ lastStart.made
    /\ lastStart.mode = "practice"
    /\ lastStart.leaves = {}
    /\ settings.topics # {}
    /\ error # Null

\* ------------------------------------------------------------ C7, C8, C9
\* The answer_keys of a candidate are empty, or hold a key that is not one
\* letter A..F or whose position is not below the number of options.
BadKeys(out) ==
    \/ out.answer_keys = <<>>
    \/ \E key \in Range(out.answer_keys) :
          ~(/\ Len(key) = 1
            /\ key[1] \in CodeA..CodeF
            /\ key[1] - CodeA < Len(out.options))

\* C7: a candidate whose answer_keys are empty or hold an invalid or
\* out-of-range key is rejected by the validator, and no such candidate is
\* among the results of generateQuestions.
C7_BadKeysRejected ==
    /\ (gen.parsed # <<>> /\ BadKeys(gen.parsed[1]))
          => (gen.status = "done" /\ ~gen.ok)
    /\ \A out \in Range(gen.results) : ~BadKeys(out)

\* A well-formed candidate with two options and a key beyond them was parsed.
C7_Witness ==
    /\ gen.parsed # <<>>
    /\ gen.parsed[1].question = "Q"
    /\ Len(gen.parsed[1].options) = 2
    /\ gen.parsed[1].answer_keys = << <<67>> >>
    /\ gen.status = "done"

\* C8: a candidate with the multiple-choice flag false and more than one
\* answer key is rejected, so an accepted candidate whose flag is false has
\* exactly one answer key.
C8_FalseFlagOneKey ==
    /\ (/\ gen.parsed # <<>>
        /\ gen.parsed[1].isMultipleChoice = "false"
        /\ Len(gen.parsed[1].answer_keys) > 1)
          => (gen.status = "done" /\ ~gen.ok)
    /\ \A out \in Range(gen.results) :
          out.isMultipleChoice = "false" => Len(out.answer_keys) = 1

\* A candidate with valid keys "A", "B" and the flag false was parsed.
C8_Witness ==
    /\ gen.parsed # <<>>
    /\ gen.parsed[1].question = "Q"
    /\ gen.parsed[1].isMultipleChoice = "false"
    /\ gen.parsed[1].answer_keys = << <<65>>, <<66>> >>
    /\ Len(gen.parsed[1].options) = 2
    /\ gen.status = "done"

\* The distinct texts, prefixes stripped, of the options the keys point to.
DistinctCorrectTexts(out) ==
    { out.options[key[1] - CodeA + 1].text : key \in Range(out.answer_keys) }

\* C9: a candidate becomes a Question only if the number of its answer keys
\* equals the number of distinct correct option texts they resolve to; one
\* with a repeated key, or two keys resolving to the same text, does not.
C9_DistinctAnswersOnly ==
    [][(generator.isLoading /\ generator'.generatedQuestion # <<>>)
       => /\ gen.results # <<>>
          /\ Len(gen.results[1].answer_keys)
                = Cardinality(DistinctCorrectTexts(gen.results[1]))]_vars

\* -------------------------------------------------------------------- C10
\* The Question invariant: with the flag true, correctAnswer is a non-empty
\* array of option strings; otherwise it is one string among the options.
QuestionInvariant(q) ==
    IF q.isMultipleChoice = "true"
    THEN /\ q.correctAnswer.isArray
         /\ q.correctAnswer.values # <<>>
         /\ Range(q.correctAnswer.values) \subseteq Range(q.options)
    ELSE /\ ~q.correctAnswer.isArray
         /\ Len(q.correctAnswer.values) = 1
         /\ Range(q.correctAnswer.values) \subseteq Range(q.options)

\* C10: every Question handed to startQuiz satisfies the Question invariant,
\* whichever path produced it.
C10_QuestionInvariant ==
    quiz.started => \A q \in Range(quiz.questions) : QuestionInvariant(q)

\* -------------------------------------------------------------------- C11
\* The option texts the answer keys of a candidate name, A the first option.
KeyedTexts(out) ==
    [k \in DOMAIN out.answer_keys |-> out.options[out.answer_keys[k][1] - CodeA + 1].text]

\* q is the Question the claim describes for the candidate out and the topic.
IsMappedQuestion(q, out, topic) ==
    /\ q.options = [i \in DOMAIN out.options |-> out.options[i].text]
    /\ q.correctAnswer.values = KeyedTexts(out)
    /\ q.correctAnswer.isArray
          = ~(Len(out.answer_keys) = 1 /\ out.isMultipleChoice # "true")
    /\ q.topic = topic

\* C11: the Question built from a validated candidate has the candidate's
\* options in order without their letter prefix, as correct answer the option
\* text each answer key names, a single string exactly when there is one
\* correct answer and the flag is false (or absent), and the requested topic.
C11_MapToQuestion ==
    [][(generator.isLoading /\ generator'.generatedQuestion # <<>>)
       => IsMappedQuestion(generator'.generatedQuestion[1], gen.results[1], gen.topic)]_vars

\* -------------------------------------------------------------------- C12
\* A call for several questions has failed after validating some candidates,
\* and handleStartQuiz is about to resume with its result.
PartialBatch ==
    /\ run.pc = "generating"
    /\ gen.status = "done"
    /\ ~gen.ok
    /\ gen.count > 1
    /\ gen.results # <<>>

\* The questions of the run once the candidates validated in the failed call
\* have been delivered and mapped.
WithPartialBatch ==
    mapGenerated(gen.results,
                 [allQuestions |-> run.allQuestions, questionId |-> run.questionId],
                 run.fullSettings.numberOfQuestions, run.topic).allQuestions

\* C12: when the k-th candidate of a call for count > 1 questions fails, the
\* k-1 candidates validated before it in that call are delivered: the run
\* goes on with their questions, and they are in the quiz it starts.
C12_PartialBatchKept ==
    [][PartialBatch
       => IF run'.pc = "generating"
          THEN run'.allQuestions = WithPartialBatch
          ELSE WithPartialBatch = <<>>
               \/ (quiz'.started /\ quiz'.questions = WithPartialBatch)]_vars

\* -------------------------------------------------------------------- C13
\* The candidates of the settled call that become questions: none of a failed
\* call, and of a successful one those whose keys all name an option text.
ProducedByCall ==
    IF gen.ok THEN SelectSeq(gen.results, LAMBDA genQ : ~mismatchedAnswers(genQ)) ELSE <<>>

\* The questions produced so far in the run, the settled call included.
ProducedSoFar ==
    run.allQuestions
        \o [i \in 1..Len(ProducedByCall) |->
               toQuestion(ProducedByCall[i], run.questionId + i - 1, run.topic)]

C14_OneRequestAtATime ==
    [][/\ pending' \in {0, 1}
       /\ (Len(sent') > Len(sent) => pending = 0 /\ pending' = 1)
       /\ (pending' = 1 => gen'.status = "awaiting")]_vars

\* The second request of a start-quiz operation is outstanding: the second
\* question of a call, or the call for a second topic.
C14_Witness ==
    /\ run.pc = "generating"
    /\ pending = 1
    /\ \/ Len(sent) = 2
       \/ gen.count = 2 /\ Len(gen.results) = 1 /\ gen.status = "awaiting"

\* -------------------------------------------------------------------- C15
\* An assessment has been started from the questions of the uploaded files.
AssessmentStarted == quiz.started /\ assessment.made /\ page = "quiz"

\* C15: the questions of a started assessment are min(40, pool size) in
\* number, whatever the parts of the pool's questions, and no entry of the
\* pool is among them twice.
C15_SelectionFilled ==
    AssessmentStarted
    => /\ Len(quiz.questions) = Min(40, Len(assessment.allQuestions))
       /\ \A i, j \in DOMAIN assessment.selected :
             assessment.selected[i] = assessment.selected[j] => i = j

\* -------------------------------------------------------------------- C16
\* The quota of each part the claim states.
StatedQuota == <<6, 14, 6, 14>>

\* The questions of the sequence that are on a topic of the part.
OfPart(questions, partId) ==
    SelectSeq(questions, LAMBDA q : topicToPartMap(q.topic) = partId)

EveryPartMeetsQuota ==
    \A partId \in PartIds : Len(OfPart(assessment.allQuestions, partId)) >= StatedQuota[partId]

\* C16: when every part has at least its quota of questions in the pool,
\* the started assessment has 40 questions, 6, 14, 6 and 14 of them from the
\* four parts, whatever orders the shuffles produce.
C16_QuotasMet ==
    (AssessmentStarted /\ EveryPartMeetsQuota)
    => /\ Len(quiz.questions) = 40
       /\ \A partId \in PartIds : Len(OfPart(quiz.questions, partId)) = StatedQuota[partId]

\* An assessment started from a pool with more than the quota in some part,
\* with a selection that is not the first questions of that part.
C16_Witness ==
    /\ AssessmentStarted
    /\ EveryPartMeetsQuota
    /\ Len(OfPart(assessment.allQuestions, 1)) > StatedQuota[1]
    /\ \E i \in DOMAIN assessment.selected :
          /\ topicToPartMap(assessment.allQuestions[assessment.selected[i]].topic) = 1
          /\ assessment.selected[i] > StatedQuota[1]

\* -------------------------------------------------------------------- C17
\* C17: when the files are read and parsed and yield fewer than 40 questions,
\* handleStartAssessmentQuiz starts no quiz: the session's settings and
\* questions and the page stay as they were, the error reports the number of
\* questions available and the number needed, and the loading flag is clear.
C17_TooFewQuestions ==
    [][(run.pc = "readingAssessmentFiles" /\ assessment'.made
            /\ Len(assessment'.allQuestions) < 40)
       => /\ quiz' = quiz
          /\ page' = page
          /\ error' = "Not enough questions. Uploaded files contain only "
                         \o ToString(Len(assessment'.allQuestions))
                         \o " questions, but 40 are needed for a full assessment."
          /\ ~isLoading']_vars

\* The files of an assessment have yielded twenty questions, and no quiz
\* has been started.
C17_Witness ==
    /\ assessment.made
    /\ Len(assessment.allQuestions) = 20
    /\ ~quiz.started
    /\ error # Null
    /\ ~isLoading
    /\ run.pc = "idle"

\* -------------------------------------------------------------------- C18
\* A saveQuizToHistory call is the step that counts one more save.
SaveStep == saves' = saves + 1

\* The items are in most-recent-first order, each saved after the next one.
MostRecentFirst(items) ==
    \A i, j \in DOMAIN items : i < j => items[i].date > items[j].date

\* What a save leaves in memory: at most 50 items, the saved item first and
\* after it the items held before in their order, the oldest of them gone
\* when 50 were held.
SavedInMemory ==
    /\ Len(history'.items) <= 50
    /\ history'.items[1].date = saves'
    /\ MostRecentFirst(history'.items)
    /\ Tail(history'.items)
          = IF Len(history.items) = 50 THEN SubSeq(history.items, 1, 49)
            ELSE history.items

\* C18 as stated: after every saveQuizToHistory call the history in memory
\* and the history in storage hold at most 50 items, the most recently saved
\* ones, most recent first, a save on a full history evicting the oldest.
C18_HistoryCapped ==
    [][SaveStep => SavedInMemory /\ storage' = StoredArray(history'.items)]_vars

\* C18, amended: the same of the history in memory after every call, and of
\* the history in storage after every call whose write to localStorage
\* succeeds; when the write fails the stored value is left as it was.
C18_HistoryCappedWhenWritten ==
    [][SaveStep => /\ SavedInMemory
                   /\ \/ storage' = StoredArray(history'.items)
                      \/ storage' = storage]_vars

\* One item saved on a history of 50: the oldest of them is gone from memory
\* and from storage.
C18_Witness ==
    /\ saves = 1
    /\ history.found = StoredArray(LeanItems(50))
    /\ Len(history.items) = 50
    /\ history.items[50] = LeanItems(50)[49]
    /\ storage = StoredArray(history.items)

\* -------------------------------------------------------------------- C19
\* The stored value is malformed: not JSON, not an array, or an array with
\* an item that has no results list.
Malformed(stored) ==
    \/ stored.kind \in {"empty", "garbage", "notArray"}
    \/ stored.kind = "array" /\ \E i \in DOMAIN stored.items : ~stored.items[i].hasResults

\* A run of the load effect is the step of the hook that counts no save.
LoadStep == saves' = saves

\* C19 as stated: a load that finds a malformed value ends with the key
\* removed and the history in memory empty.
C19_MalformedWiped ==
    [][(LoadStep /\ Malformed(storage))
       => /\ storage' = NoStoredValue
          /\ history'.loaded
          /\ history'.items = <<>>]_vars

\* C19, amended: a load that finds a malformed value ends with the history
\* in memory empty, and with the key removed unless the value is the empty
\* string, which the effect takes for no history and leaves in place.
C19_MalformedWipedUnlessEmpty ==
    [][(LoadStep /\ Malformed(storage))
       => /\ history'.loaded
          /\ history'.items = <<>>
          /\ storage' = IF storage.kind = "empty" THEN storage ELSE NoStoredValue]_vars

\* The effect has run on an array whose second item has no results list.
C19_Witness ==
    /\ history.loaded
    /\ history.found.kind = "array"
    /\ Len(history.found.items) = 2
    /\ Malformed(history.found)
    /\ history.items = <<>>
    /\ storage = NoStoredValue

\* -------------------------------------------------------------------- C20
\* C20: once the history has been loaded, every result held in storage is
\* lean, whatever was stored before and whatever is saved.
C20_StoredResultsLean ==
    history.loaded
    => \A i \in DOMAIN storage.items :
          \A k \in DOMAIN storage.items[i].results : storage.items[i].results[k] = "lean"

\* -------------------------------------------------------------------- C21
\* C21: in every started quiz the ids of the questions are pairwise
\* distinct, whichever path built the quiz.
C21_DistinctIds ==
    quiz.started
    => \A i, j \in DOMAIN quiz.questions :
          quiz.questions[i].id = quiz.questions[j].id => i = j

\* -------------------------------------------------------------------- C22
\* The items of a quiz file, numbered from 0, that have an answer-key entry
\* whose correct option indices all lie inside the option list.
RECURSIVE ValidItemsFrom(_, _)
ValidItemsFrom(data, index) ==
    IF index >= Len(data.items) THEN <<>>
    ELSE LET answer == data.answerKey[index + 1]
         IN  (IF answer \notin {NoAnswer, NoIndices}
                    /\ \A k \in DOMAIN answer : answer[k] \in 0..(Len(FileOptions) - 1)
              THEN <<index>> ELSE <<>>)
                \o ValidItemsFrom(data, index + 1)

\* The loader raises no error on the file and returns its valid items, in
\* item order.
LoadsValidItems(data) ==
    /\ ~parseAndTransformQuizData([kind |-> "quiz", double |-> FALSE, data |-> data], 0).threw
    /\ LET questions == transformLoadedQuizData(data, 0)
       IN  [k \in DOMAIN questions |-> questions[k].id] = ValidItemsFrom(data, 0)

\* C22: of every quiz file being read the loader returns, in item order,
\* exactly the items with an answer-key entry whose indices are all inside
\* the option list, and drops every other item without raising an error.
C22_BadEntriesDropped ==
    \A i \in DOMAIN load : load[i].kind = "quiz" => LoadsValidItems(load[i].data)

\* -------------------------------------------------------------------- C23
\* The call has ended on a text of the given form.
Parsed(form) == parser.form = form /\ parser.outcome # <<>>

\* The call returned the object the text was made from.
YieldsObject ==
    /\ ~parser.outcome[1].threw
    /\ parser.outcome[1].value = <<parser.object>>

\* C23: robustJsonParse of a valid JSON object in a fenced code block, with
\* any prose before and after the block, returns an object equal to the
\* original.
C23_FencedRoundTrip == Parsed("fenced") => YieldsObject

\* -------------------------------------------------------------------- C24
\* C24: robustJsonParse of a JSON string whose content is the JSON of an
\* object parses a second time and returns the inner object.
C24_DoubleDecoded == Parsed("double") => YieldsObject

\* -------------------------------------------------------------------- C25
\* An attempt of the set-up page is in progress: the generation loop or the
\* assessment build of handleStartQuiz, or the file reads of
\* handleFileSelected.
StartInProgress == run.pc # "idle" \/ load # <<>>

\* C25: no failure leaves a handler as an exception.  A generateQuestions
\* call that ends with ok = false has a reason; the loading flag of the
\* set-up page is set only while a start attempt is in progress, and the
\* step that ends the attempt leaves a started quiz or the error set, as
\* does a start that is refused before the flag is set; the loading flag of
\* the generator page is set only while its generateQuestions call is in
\* progress, and the step that ends it leaves a question or the error set.
C25_NoErrorEscapes ==
    /\ []((gen.status = "done" /\ ~gen.ok) => gen.reason # "")
    /\ [](isLoading => StartInProgress)
    /\ [](generator.isLoading => gen.status # "idle")
    /\ [][(isLoading /\ ~isLoading')
          => \/ error' # Null /\ ~quiz'.started
             \/ error' = Null /\ quiz'.started /\ page' = "quiz"]_vars
    /\ [][(~isLoading /\ ~isLoading' /\ lastStart' # lastStart) => error' # Null]_vars
    /\ [][(generator.isLoading /\ ~generator'.isLoading)
          => \/ generator'.error # Null /\ generator'.generatedQuestion = <<>>
             \/ generator'.error = Null /\ generator'.generatedQuestion # <<>>]_vars

\* A start whose second request returned a candidate with an option that is
\* not a string: the exception of the mapping was caught, the error is set,
\* the flag cleared and no quiz started.
C25_Witness ==
    /\ error = "opt.replace is not a function"
    /\ ~isLoading
    /\ ~quiz.started
    /\ page = "setup"
    /\ Len(sent) = 2
    /\ run.pc = "idle"

\* -------------------------------------------------------------------- C26
\* C26: in generator mode, in every state of the set-up page, a topic that
\* has children (a chapter with sections) is selected if and only if all of
\* its children are selected.
C26_HierarchicalConsistency ==
    isGeneratorMode =>
        \A t \in Chapters :
            ChildrenOf(t) # {} => (t \in settings.topics <=> ChildrenOf(t) \subseteq settings.topics)

\* -------------------------------------------------------------------- C27
\* The number of times text occurs in array.
Occurrences(array, text) == Cardinality({ i \in DOMAIN array : array[i] = text })

\* A step that calls submitAnswer appends one result, made of the question
\* shown and the answers selected, and leaves the earlier results as they
\* were; Same(userAnswer, correct) tells what isCorrect has to be.
SubmitStep(Same(_, _)) ==
    quizResults' # quizResults
        => /\ Len(quizResults') = Len(quizResults) + 1
           /\ SubSeq(quizResults', 1, Len(quizResults)) = quizResults
           /\ LET last == quizResults'[Len(quizResults')]
              IN  /\ last.question = CurrentQuestion
                  /\ last.userAnswer = session.selectedAnswers
                  /\ last.isCorrect
                       <=> Same(session.selectedAnswers, correctAnswers(CurrentQuestion))

SameStringSet(userAnswer, correct) == Range(userAnswer) = Range(correct)

SameStringCounts(userAnswer, correct) ==
    \A text \in Range(userAnswer) \cup Range(correct) :
        Occurrences(userAnswer, text) = Occurrences(correct, text)

C28_OneResultPerQuestion ==
    /\ \A i, j \in DOMAIN quizResults :
          i # j => quizResults[i].question.id # quizResults[j].question.id
    /\ Len(quizResults) <= Len(quiz.questions)
    /\ page = "results" => percentage(quizResults, quiz.questions) <= 100

\* -------------------------------------------------------------------- C29
\* C29: when every request succeeded and numberOfQuestions is at least the
\* number of selected leaf topics, the started quiz has a question of every
\* selected leaf topic and exactly numberOfQuestions questions.
C29_TopicCoverage ==
    (quiz.started /\ quiz.settings.numberOfQuestions >= Cardinality(quiz.settings.topics))
        => /\ \A t \in quiz.settings.topics :
                 \E i \in DOMAIN quiz.questions : quiz.questions[i].topic = t
           /\ Len(quiz.questions) = quiz.settings.numberOfQuestions

\* -------------------------------------------------------------------- C30
\* C30: a start attempt that sets the loading flag eventually clears it,
\* every outstanding request and file read settling; and while the flag is
\* set no other attempt begins: no file load and no quiz start is begun, and
\* the attempt in progress only adds requests to those it has sent.
C30_LoadingClears ==
    /\ isLoading ~> ~isLoading
    /\ [][isLoading
          => /\ load = <<>> => load' = <<>>
             /\ run.pc = "idle" => run'.pc = "idle"
             /\ lastStart' = lastStart
             /\ run'.pc # "idle"
                  => /\ Len(sent') >= Len(sent)
                     /\ SubSeq(sent', 1, Len(sent)) = sent]_vars

\* The flag is set while the second request of a generation is outstanding.
C30_Witness ==
    /\ isLoading
    /\ run.pc = "generating"
    /\ gen.status = "awaiting"
    /\ Len(sent) = 2
====
